---- MODULE Spec2Model ----
(***************************************************************************)
(* Model of bank-vaults/vault-sdk:                                         *)
(*   - vault.Client: token bootstrap, the login/renewal goroutine, the CA  *)
(*     certificate file watcher and Close;                                 *)
(*   - injector/bao.SecretInjector: resolution of secret references.       *)
(***************************************************************************)
EXTENDS Integers, Sequences, FiniteSets, TLC

(***************************************************************************)
(* Bounds of the model                                                     *)
(***************************************************************************)
\* watcher objects that can exist side by side (ids are reused once an
\* object is finished and no longer referenced)
MaxWatchers == 2
\* the history counters saturate here
MaxCount == 2

\* capacity of the initialTokenArrived channel: make(chan string, 1)
ChanCap == 1

\* calls of InjectSecretsFromBao made one after the other
MaxCalls == 2
\* the largest Config.TransitBatchSize
MaxBatchSize == 2

Min(a, b) == IF a < b THEN a ELSE b
Sat(n) == Min(n + 1, MaxCount)

(***************************************************************************)
(* vault.Client                                                            *)
(***************************************************************************)
VARIABLES
    cfg,                  \* the options and environment of the constructor
    boot,                 \* position of the constructor's caller
    token,                \* rawClient's token
    closed,               \* client.closed
    tokenWatcher,         \* client.tokenWatcher (NoWatcher = nil)
    watch,                \* client.watch: "none" (nil), "open", "closed"
    mu,                   \* client.mu: "free" or the holder
    looppc,               \* position of the login/renewal goroutine
    localWatcher,         \* the goroutine's tokenWatcher variable
    secret,               \* the token of the goroutine's secret variable
    initialTokenArrived,  \* number of values buffered in the channel
    initialTokenSent,     \* the goroutine's initialTokenSent flag
    wstate,               \* watcher object -> "free", "created", "running",
                          \* "done" (ended with nil), "failed" (with an error)
    wstopped,             \* watcher object -> Stop() has been called
    renewCh,              \* watcher object -> a renewal is waiting in RenewCh
    fwpc,                 \* position of the CA certificate watcher goroutine
    caReloaded,           \* config.ReadEnvironment() has reloaded the CA
    userpc,               \* position of the handle's owner
    \* history variables (written, never read by the program's actions)
    observedClosed,       \* what the last loop-head check read from closed
    arrival,              \* how the loop reached its head the last time
    loginCalled,          \* a login attempt has begun
    loginsAfterClose,     \* login attempts begun after a Close completed
    sends,                \* sends on initialTokenArrived
    closeCalls,           \* completed Close calls
    everSucceeded,        \* a login has returned a secret
    succeededAtTimeout    \* a login had succeeded when the timeout fired

clientVars == <<cfg, boot, token, closed, tokenWatcher, watch, mu, looppc,
                localWatcher, secret, initialTokenArrived, initialTokenSent,
                wstate, wstopped, renewCh, fwpc, caReloaded, userpc>>
histVars == <<observedClosed, arrival, loginCalled, loginsAfterClose, sends,
              closeCalls, everSucceeded, succeededAtTimeout>>
(***************************************************************************)
(* injector/bao.SecretInjector                                             *)
(***************************************************************************)
VARIABLES
    icfg,                 \* SecretInjector.config
    rw,                   \* SecretInjector.mu: who holds it, and how
    transitCache,         \* SecretInjector.transitCache
    secretCache,          \* SecretInjector.secretCache
    stack,                \* caller -> the frames of its running call,
                          \* innermost last
    inputs,               \* what the callers pass in, what the store answers
    quota,                \* caller -> the calls it will still make
    \* history variables
    args,                 \* caller -> the references of its last call
    sunk,                 \* caller -> the inject invocations of that call
    result,               \* caller -> the error that call returned
    rpcs,                 \* caller -> the requests that call has sent
    stores                \* the writes of secretCache, in their order

injVars == <<icfg, rw, transitCache, secretCache, stack, inputs, quota, args,
             sunk, result, rpcs, stores>>

vars == <<clientVars, histVars, injVars>>

NoWatcher == 0
Watchers == 1..MaxWatchers
NoToken == ""
LoginTokens == {"s.login1", "s.login2"}

\* the token files: the one of the tokenPath option, the one VAULT_TOKEN_PATH
\* names, and $HOME/.vault-token
OptTokenFile == "/opt/token"
EnvTokenFile == "/env/token"
HomeTokenFile == "~/.vault-token"
TokenFiles == {OptTokenFile, EnvTokenFile, HomeTokenFile}

\* clientOptions.token, rawClient.Token() (VAULT_TOKEN), clientOptions.
\* tokenPath, VAULT_TOKEN_PATH, the files os.ReadFile can read, and whether
\* VAULT_CACERT is set with reload on
AllConfigs == [token : {NoToken, "s.option"},
               rawToken : {NoToken, "s.env"},
               tokenPath : {"", OptTokenFile},
               envTokenPath : {"", EnvTokenFile},
               readable : SUBSET TokenFiles,
               caReload : BOOLEAN]

\* the configurations with the default token path: the file is there or not
Configs ==
    {c \in AllConfigs : /\ c.tokenPath = "" /\ c.envTokenPath = ""
                        /\ c.readable \subseteq {HomeTokenFile}}

\* the state in which the constructor is called
ClientInitFrom(configs) ==
    /\ cfg \in configs
    /\ boot = "start"
    /\ token = cfg.rawToken
    /\ closed = FALSE
    /\ tokenWatcher = NoWatcher
    /\ watch = "none"
    /\ mu = "free"
    /\ looppc = "none"
    /\ localWatcher = NoWatcher
    /\ secret = NoToken
    /\ initialTokenArrived = 0
    /\ initialTokenSent = FALSE
    /\ wstate = [w \in Watchers |-> "free"]
    /\ wstopped = [w \in Watchers |-> FALSE]
    /\ renewCh = [w \in Watchers |-> FALSE]
    /\ fwpc = "none"
    /\ caReloaded = FALSE
    /\ userpc = "idle"
    /\ observedClosed = FALSE
    /\ arrival = "start"
    /\ loginCalled = FALSE
    /\ loginsAfterClose = 0
    /\ sends = 0
    /\ closeCalls = 0
    /\ everSucceeded = FALSE
    /\ succeededAtTimeout = FALSE

ClientInit == ClientInitFrom(Configs)

(***************************************************************************)
(* NewClientFromRawClientWithContext: the token sources                    *)
(***************************************************************************)
\* mutant of TokenPath: VAULT_TOKEN_PATH overrides the tokenPath option
TokenPath_EnvFirst(c) ==
    IF c.envTokenPath # "" THEN c.envTokenPath
    ELSE IF c.tokenPath # "" THEN c.tokenPath
    ELSE HomeTokenFile

\* lines 333-339: o.tokenPath after the defaults
TokenPath(c) ==
    IF c.tokenPath # "" THEN c.tokenPath
    ELSE IF c.envTokenPath # "" THEN c.envTokenPath
    ELSE HomeTokenFile

\* line 361: os.ReadFile(o.tokenPath) succeeds
FileOk(c) == TokenPath(c) \in c.readable

\* the token each file holds
FileToken(path) ==
    IF path = HomeTokenFile THEN "s.file"
    ELSE IF path = OptTokenFile THEN "s.file.option"
    ELSE "s.file.env"

\* mutant of NeedsLogin: the token already held by the raw client is not
\* looked at
NeedsLogin_IgnoresRawToken(c) == c.token = NoToken /\ ~FileOk(c)

\* lines 358-364: the login goroutine is started only when o.token is empty,
\* rawClient.Token() is empty and os.ReadFile(o.tokenPath) fails
NeedsLogin(c) == c.token = NoToken /\ c.rawToken = NoToken /\ ~FileOk(c)

\* lines 358-363: the token the raw client holds after the direct sources
DirectToken(c) ==
    IF c.token # NoToken THEN c.token
    ELSE IF c.rawToken # NoToken THEN c.rawToken
    ELSE IF FileOk(c) THEN FileToken(TokenPath(c))
    ELSE NoToken

NewClientFromRawClientWithContext ==
    /\ boot = "start"
    /\ token' = DirectToken(cfg)
    /\ IF NeedsLogin(cfg)
       THEN /\ looppc' = "head"       \* go func() { for { ... } }()
            /\ boot' = "waiting"      \* select on the channel and the timer
       ELSE /\ looppc' = looppc
            /\ boot' = "ready"
    /\ UNCHANGED <<cfg, closed, tokenWatcher, watch, mu, localWatcher, secret,
                   initialTokenArrived, initialTokenSent, wstate, wstopped,
                   renewCh, fwpc, caReloaded, userpc, histVars>>
    /\ UNCHANGED injVars

\* case <-initialTokenArrived
InitialTokenArrived ==
    /\ boot = "waiting"
    /\ initialTokenArrived > 0
    /\ initialTokenArrived' = initialTokenArrived - 1
    /\ boot' = "ready"
    /\ UNCHANGED <<cfg, token, closed, tokenWatcher, watch, mu, looppc,
                   localWatcher, secret, initialTokenSent, wstate, wstopped, renewCh,
                   fwpc, caReloaded, userpc, histVars>>
    /\ UNCHANGED injVars

\* case <-time.After(o.timeout): the timer can fire at any moment of the
\* wait; the caller goes on to client.Close()
Timeout ==
    /\ boot = "waiting"
    /\ boot' = "tclose"
    /\ succeededAtTimeout' = everSucceeded
    /\ UNCHANGED <<cfg, token, closed, tokenWatcher, watch, mu, looppc,
                   localWatcher, secret, initialTokenArrived, initialTokenSent,
                   wstate, wstopped, renewCh, fwpc, caReloaded, userpc,
                   observedClosed, arrival, loginCalled, loginsAfterClose, sends,
                   closeCalls, everSucceeded>>
    /\ UNCHANGED injVars

\* return client, nil; NewClientFromConfigWithContext first creates the
\* fsnotify watcher and its goroutine when VAULT_CACERT is set with reload
ReturnHandle ==
    /\ boot = "ready"
    /\ boot' = "returned"
    /\ IF cfg.caReload
       THEN watch' = "open" /\ fwpc' = "head"
       ELSE watch' = watch /\ fwpc' = fwpc
    /\ UNCHANGED <<cfg, token, closed, tokenWatcher, mu, looppc,
                   localWatcher, secret, initialTokenArrived, initialTokenSent,
                   wstate, wstopped, renewCh, caReloaded, userpc, histVars>>
    /\ UNCHANGED injVars

(***************************************************************************)
(* Client.Close                                                            *)
(***************************************************************************)
\* the fields Close touches
ClientState ==
    [closed |-> closed, tokenWatcher |-> tokenWatcher,
     wstopped |-> wstopped, watch |-> watch]

\* mutant of Close: the flag is flipped instead of set
Close_TogglesClosed(s) ==
    [s EXCEPT !.closed = ~@,
              !.wstopped = IF s.tokenWatcher # NoWatcher
                           THEN [@ EXCEPT ![s.tokenWatcher] = TRUE]
                           ELSE @,
              !.watch = IF @ # "none" THEN "closed" ELSE @]

\* lines 554-562, run with client.mu held: closed = true; the current
\* renewer is stopped (Renewer.Stop only sets the flag the first time);
\* the fsnotify watcher is closed
Close(s) ==
    [s EXCEPT !.closed = TRUE,
              !.wstopped = IF s.tokenWatcher # NoWatcher
                           THEN [@ EXCEPT ![s.tokenWatcher] = TRUE]
                           ELSE @,
              !.watch = IF @ # "none" THEN "closed" ELSE @]

\* client.mu.Lock() of Close, by the constructor's caller on a timeout
TimeoutCloseLock ==
    /\ boot = "tclose"
    /\ mu = "free"
    /\ mu' = "boot"
    /\ boot' = "tclosing"
    /\ UNCHANGED <<cfg, token, closed, tokenWatcher, watch, looppc,
                   localWatcher, secret, initialTokenArrived, initialTokenSent,
                   wstate, wstopped, renewCh, fwpc, caReloaded, userpc,
                   histVars>>
    /\ UNCHANGED injVars

\* the body of Close, its deferred Unlock, and
\* return nil, errors.Errorf("timeout ...")
TimeoutClose ==
    /\ boot = "tclosing"
    /\ mu = "boot"
    /\ LET s == Close(ClientState) IN
        /\ closed' = s.closed
        /\ wstopped' = s.wstopped
        /\ watch' = s.watch
    /\ mu' = "free"
    /\ boot' = "timedout"
    /\ closeCalls' = Sat(closeCalls)
    /\ UNCHANGED <<cfg, token, tokenWatcher, looppc, localWatcher, secret,
                   initialTokenArrived, initialTokenSent, wstate, renewCh,
                   fwpc, caReloaded, userpc, observedClosed, arrival, loginCalled,
                   loginsAfterClose, sends, everSucceeded,
                   succeededAtTimeout>>
    /\ UNCHANGED injVars

\* the owner of a returned handle calls Close: client.mu.Lock()
UserCloseLock ==
    /\ boot = "returned"
    /\ userpc = "idle"
    /\ mu = "free"
    /\ mu' = "user"
    /\ userpc' = "closing"
    /\ UNCHANGED <<cfg, boot, token, closed, tokenWatcher, watch, looppc,
                   localWatcher, secret, initialTokenArrived, initialTokenSent,
                   wstate, wstopped, renewCh, fwpc, caReloaded, histVars>>
    /\ UNCHANGED injVars

\* the body of Close and its deferred Unlock
UserClose ==
    /\ userpc = "closing"
    /\ mu = "user"
    /\ LET s == Close(ClientState) IN
        /\ closed' = s.closed
        /\ wstopped' = s.wstopped
        /\ watch' = s.watch
    /\ mu' = "free"
    /\ userpc' = "idle"
    /\ closeCalls' = Sat(closeCalls)
    /\ UNCHANGED <<cfg, boot, token, tokenWatcher, looppc, localWatcher, secret,
                   initialTokenArrived, initialTokenSent, wstate, renewCh,
                   fwpc, caReloaded, observedClosed, arrival, loginCalled,
                   loginsAfterClose, sends, everSucceeded,
                   succeededAtTimeout>>
    /\ UNCHANGED injVars

(***************************************************************************)
(* The login/renewal goroutine (lines 379-432)                             *)
(***************************************************************************)
\* mutant of LoopHeadNext: the loop does not break when closed
LoopHeadNext_NoBreak(c) == "call"

\* lines 381-386: where the loop goes after reading client.closed
LoopHeadNext(c) == IF c THEN "exit" ELSE "call"

\* mutant of AfterLogin: a login error ends the loop
AfterLogin_ErrorBreaks(outcome) ==
    IF outcome = "err" THEN "exit"
    ELSE IF outcome = "empty" THEN "sleep" ELSE "install"

\* lines 389-399: an error and an empty answer both sleep and continue
AfterLogin(outcome) ==
    IF outcome \in {"err", "empty"} THEN "sleep" ELSE "install"

\* mutant of RenewCheckerNext: a renewal also returns
RenewCheckerNext_AlwaysReturns(event) == "head"

\* mutant of RenewCheckerNext: a renewal returns, the end of the renewer does
\* not
RenewCheckerNext_ReturnsOnRenewal(event) ==
    IF event = "renewed" THEN "head" ELSE "renew"

\* lines 526-534: DoneCh returns from runRenewChecker, RenewCh stays in it
RenewCheckerNext(event) == IF event = "done" THEN "head" ELSE "renew"

\* client.mu.Lock() at the head of the loop
LoopLock ==
    /\ looppc = "head"
    /\ mu = "free"
    /\ mu' = "loop"
    /\ looppc' = "check"
    /\ UNCHANGED <<cfg, boot, token, closed, tokenWatcher, watch,
                   localWatcher, secret, initialTokenArrived,
                   initialTokenSent, wstate, wstopped, renewCh, fwpc,
                   caReloaded, userpc, histVars>>
    /\ UNCHANGED injVars

\* if client.closed { Unlock; break }; Unlock
LoopCheck ==
    /\ looppc = "check"
    /\ mu = "loop"
    /\ mu' = "free"
    /\ looppc' = LoopHeadNext(closed)
    /\ observedClosed' = closed
    /\ UNCHANGED <<cfg, boot, token, closed, tokenWatcher, watch,
                   localWatcher, secret, initialTokenArrived,
                   initialTokenSent, wstate, wstopped, renewCh, fwpc,
                   caReloaded, userpc, arrival, loginCalled, loginsAfterClose,
                   sends, closeCalls, everSucceeded, succeededAtTimeout>>
    /\ UNCHANGED injVars

\* client.getVaultAPISecret(ctx, jwtFile, o) is called
LoginCall ==
    /\ looppc = "call"
    /\ looppc' = "inflight"
    /\ loginCalled' = TRUE
    /\ loginsAfterClose' = IF closed THEN Sat(loginsAfterClose)
                           ELSE loginsAfterClose
    /\ UNCHANGED <<cfg, boot, token, closed, tokenWatcher, watch, mu,
                   localWatcher, secret, initialTokenArrived,
                   initialTokenSent, wstate, wstopped, renewCh, fwpc,
                   caReloaded, userpc, observedClosed, arrival, sends,
                   closeCalls, everSucceeded, succeededAtTimeout>>
    /\ UNCHANGED injVars

\* the login returns an error or (nil, nil)
LoginFails ==
    /\ looppc = "inflight"
    /\ \E outcome \in {"err", "empty"} : looppc' = AfterLogin(outcome)
    /\ UNCHANGED <<cfg, boot, token, closed, tokenWatcher, watch, mu,
                   localWatcher, secret, initialTokenArrived,
                   initialTokenSent, wstate, wstopped, renewCh, fwpc,
                   caReloaded, userpc, histVars>>
    /\ UNCHANGED injVars

\* the login returns a secret
LoginSucceeds ==
    /\ looppc = "inflight"
    /\ looppc' = AfterLogin("secret")
    /\ \E t \in LoginTokens : secret' = t
    /\ everSucceeded' = TRUE
    /\ UNCHANGED <<cfg, boot, token, closed, tokenWatcher, watch, mu,
                   localWatcher, initialTokenArrived, initialTokenSent,
                   wstate, wstopped, renewCh, fwpc, caReloaded, userpc,
                   observedClosed, arrival, loginCalled, loginsAfterClose, sends,
                   closeCalls, succeededAtTimeout>>
    /\ UNCHANGED injVars

\* time.Sleep(1 * time.Second); continue
Backoff ==
    /\ looppc = "sleep"
    /\ looppc' = "head"
    /\ arrival' = "backoff"
    /\ UNCHANGED <<cfg, boot, token, closed, tokenWatcher, watch, mu,
                   localWatcher, secret, initialTokenArrived,
                   initialTokenSent, wstate, wstopped, renewCh, fwpc,
                   caReloaded, userpc, observedClosed, loginCalled,
                   loginsAfterClose, sends, closeCalls, everSucceeded,
                   succeededAtTimeout>>
    /\ UNCHANGED injVars

\* rawClient.SetToken(secret.Auth.ClientToken)
SetToken ==
    /\ looppc = "install"
    /\ looppc' = "notify"
    /\ token' = secret
    /\ UNCHANGED <<cfg, boot, closed, tokenWatcher, watch, mu, localWatcher,
                   secret, initialTokenArrived, initialTokenSent, wstate,
                   wstopped, renewCh, fwpc, caReloaded, userpc, histVars>>
    /\ UNCHANGED injVars

\* mutant of SendsInitialToken: every login sends
SendsInitialToken_Always(sent) == TRUE

\* lines 410-413: whether this login sends on initialTokenArrived
SendsInitialToken(sent) == ~sent

\* if !initialTokenSent { initialTokenArrived <- ...; initialTokenSent = true }
\* a send on a full channel blocks the goroutine
Notify ==
    /\ looppc = "notify"
    /\ IF SendsInitialToken(initialTokenSent)
       THEN IF initialTokenArrived < ChanCap
            THEN /\ initialTokenArrived' = initialTokenArrived + 1
                 /\ initialTokenSent' = TRUE
                 /\ sends' = Sat(sends)
                 /\ looppc' = "watch"
            ELSE /\ looppc' = "blocked"
                 /\ UNCHANGED <<initialTokenArrived, initialTokenSent, sends>>
       ELSE /\ looppc' = "watch"
            /\ UNCHANGED <<initialTokenArrived, initialTokenSent, sends>>
    /\ UNCHANGED <<cfg, boot, token, closed, tokenWatcher, watch, mu,
                   localWatcher, secret, wstate, wstopped, renewCh, fwpc,
                   caReloaded, userpc, observedClosed, arrival, loginCalled,
                   loginsAfterClose, closeCalls, everSucceeded,
                   succeededAtTimeout>>
    /\ UNCHANGED injVars

\* watcher objects NewLifetimeWatcher can hand out: finished ones that the
\* client no longer references
FreeWatchers == {w \in Watchers : wstate[w] = "free" /\ w # tokenWatcher}

\* tokenWatcher, err = rawClient.NewLifetimeWatcher(...): a new renewer
\* (the free object with the least id: which one is taken does not matter)
NewLifetimeWatcher ==
    /\ looppc = "watch"
    /\ \E w \in FreeWatchers :
        /\ \A v \in FreeWatchers : w <= v
        /\ localWatcher' = w
        /\ wstate' = [wstate EXCEPT ![w] = "created"]
        /\ wstopped' = [wstopped EXCEPT ![w] = FALSE]
        /\ renewCh' = [renewCh EXCEPT ![w] = FALSE]
    /\ looppc' = "setfield"
    /\ UNCHANGED <<cfg, boot, token, closed, tokenWatcher, watch, mu, secret,
                   initialTokenArrived, initialTokenSent, fwpc, caReloaded,
                   userpc, histVars>>
    /\ UNCHANGED injVars

\* NewLifetimeWatcher returns (nil, err): log and continue
NewLifetimeWatcherFails ==
    /\ looppc = "watch"
    /\ localWatcher' = NoWatcher
    /\ looppc' = "head"
    /\ arrival' = "nowatcher"
    /\ UNCHANGED <<cfg, boot, token, closed, tokenWatcher, watch, mu, secret,
                   initialTokenArrived, initialTokenSent, wstate, wstopped,
                   renewCh, fwpc, caReloaded, userpc, observedClosed, loginCalled,
                   loginsAfterClose, sends, closeCalls, everSucceeded,
                   succeededAtTimeout>>
    /\ UNCHANGED injVars

\* client.mu.Lock() before the field is set
SetWatcherLock ==
    /\ looppc = "setfield"
    /\ mu = "free"
    /\ mu' = "loop"
    /\ looppc' = "setfield2"
    /\ UNCHANGED <<cfg, boot, token, closed, tokenWatcher, watch,
                   localWatcher, secret, initialTokenArrived,
                   initialTokenSent, wstate, wstopped, renewCh, fwpc,
                   caReloaded, userpc, histVars>>
    /\ UNCHANGED injVars

\* client.tokenWatcher = tokenWatcher; Unlock
SetWatcher ==
    /\ looppc = "setfield2"
    /\ mu = "loop"
    /\ tokenWatcher' = localWatcher
    /\ mu' = "free"
    /\ looppc' = "start"
    /\ UNCHANGED <<cfg, boot, token, closed, watch, localWatcher, secret,
                   initialTokenArrived, initialTokenSent, wstate, wstopped,
                   renewCh, fwpc, caReloaded, userpc, histVars>>
    /\ UNCHANGED injVars

\* go tokenWatcher.Start(); the loop enters client.runRenewChecker
StartWatcher ==
    /\ looppc = "start"
    /\ wstate' = [wstate EXCEPT ![localWatcher] = "running"]
    /\ looppc' = "renew"
    /\ UNCHANGED <<cfg, boot, token, closed, tokenWatcher, watch, mu,
                   localWatcher, secret, initialTokenArrived,
                   initialTokenSent, wstopped, renewCh, fwpc, caReloaded,
                   userpc, histVars>>
    /\ UNCHANGED injVars

\* the renewer renews the token and writes to RenewCh
WatcherRenews(w) ==
    /\ wstate[w] = "running"
    /\ ~renewCh[w]
    /\ renewCh' = [renewCh EXCEPT ![w] = TRUE]
    /\ UNCHANGED <<cfg, boot, token, closed, tokenWatcher, watch, mu, looppc,
                   localWatcher, secret, initialTokenArrived,
                   initialTokenSent, wstate, wstopped, fwpc, caReloaded,
                   userpc, histVars>>
    /\ UNCHANGED injVars

\* the renewer ends and writes to DoneCh: nil once stopped, nil or an error
\* when the token cannot be renewed any further
WatcherEnds(w) ==
    /\ wstate[w] = "running"
    /\ \E r \in (IF wstopped[w] THEN {"done"} ELSE {"done", "failed"}) :
        wstate' = [wstate EXCEPT ![w] = r]
    /\ UNCHANGED <<cfg, boot, token, closed, tokenWatcher, watch, mu, looppc,
                   localWatcher, secret, initialTokenArrived,
                   initialTokenSent, wstopped, renewCh, fwpc, caReloaded,
                   userpc, histVars>>
    /\ UNCHANGED injVars

\* case o := <-tokenWatcher.RenewCh(): log the ttl
RenewCheckerRenewed ==
    /\ looppc = "renew"
    /\ renewCh[localWatcher]
    /\ renewCh' = [renewCh EXCEPT ![localWatcher] = FALSE]
    /\ looppc' = RenewCheckerNext("renewed")
    /\ UNCHANGED <<cfg, boot, token, closed, tokenWatcher, watch, mu,
                   localWatcher, secret, initialTokenArrived,
                   initialTokenSent, wstate, wstopped, fwpc, caReloaded,
                   userpc, histVars>>
    /\ UNCHANGED injVars

\* case err := <-tokenWatcher.DoneCh(): return
RenewCheckerDone ==
    /\ looppc = "renew"
    /\ wstate[localWatcher] \in {"done", "failed"}
    /\ wstate' = [wstate EXCEPT ![localWatcher] = "free"]
    /\ looppc' = RenewCheckerNext("done")
    /\ arrival' = "done"
    /\ UNCHANGED <<cfg, boot, token, closed, tokenWatcher, watch, mu,
                   localWatcher, secret, initialTokenArrived,
                   initialTokenSent, wstopped, renewCh, fwpc, caReloaded,
                   userpc, observedClosed, loginCalled, loginsAfterClose, sends,
                   closeCalls, everSucceeded, succeededAtTimeout>>
    /\ UNCHANGED injVars

(***************************************************************************)
(* The CA certificate watcher goroutine (lines 246-272)                    *)
(***************************************************************************)
\* client.mu.Lock() at the head of the loop
FileWatchLock ==
    /\ fwpc = "head"
    /\ mu = "free"
    /\ mu' = "fw"
    /\ fwpc' = "check"
    /\ UNCHANGED <<cfg, boot, token, closed, tokenWatcher, watch, looppc,
                   localWatcher, secret, initialTokenArrived,
                   initialTokenSent, wstate, wstopped, renewCh, caReloaded,
                   userpc, histVars>>
    /\ UNCHANGED injVars

\* if client.closed { Unlock; break }; Unlock
FileWatchCheck ==
    /\ fwpc = "check"
    /\ mu = "fw"
    /\ mu' = "free"
    /\ fwpc' = IF closed THEN "exit" ELSE "select"
    /\ UNCHANGED <<cfg, boot, token, closed, tokenWatcher, watch, looppc,
                   localWatcher, secret, initialTokenArrived,
                   initialTokenSent, wstate, wstopped, renewCh, caReloaded,
                   userpc, histVars>>
    /\ UNCHANGED injVars

\* select on watch.Events and watch.Errors: a write or create of the CA file
\* reloads the configuration (which can fail), any other event or an error
\* is passed over; a closed watcher's channels deliver zero values
FileWatchEvent ==
    /\ fwpc = "select"
    /\ fwpc' = "head"
    /\ \E reload \in (IF watch = "open" THEN BOOLEAN ELSE {FALSE}) :
        caReloaded' = (caReloaded \/ reload)
    /\ UNCHANGED <<cfg, boot, token, closed, tokenWatcher, watch, mu, looppc,
                   localWatcher, secret, initialTokenArrived,
                   initialTokenSent, wstate, wstopped, renewCh, userpc,
                   histVars>>
    /\ UNCHANGED injVars

(***************************************************************************)
(* The steps of the client                                                 *)
(***************************************************************************)
LoopNext ==
    \/ LoopLock
    \/ LoopCheck
    \/ LoginCall
    \/ LoginFails
    \/ LoginSucceeds
    \/ Backoff
    \/ SetToken
    \/ Notify
    \/ NewLifetimeWatcher
    \/ NewLifetimeWatcherFails
    \/ SetWatcherLock
    \/ SetWatcher
    \/ StartWatcher
    \/ RenewCheckerRenewed
    \/ RenewCheckerDone

Next ==
    \/ NewClientFromRawClientWithContext
    \/ InitialTokenArrived
    \/ Timeout
    \/ ReturnHandle
    \/ TimeoutCloseLock
    \/ TimeoutClose
    \/ UserCloseLock
    \/ UserClose
    \/ LoopNext
    \/ \E w \in Watchers : WatcherRenews(w)
    \/ \E w \in Watchers : WatcherEnds(w)
    \/ FileWatchLock
    \/ FileWatchCheck
    \/ FileWatchEvent

(***************************************************************************)
(* Strings of the injector: a Go string is the sequence of its lexical     *)
(* pieces ("${", "bao:", ">>", "#", "}", ... and the text between them)    *)
(***************************************************************************)
\* strings.HasPrefix
HasPrefix(s, p) == Len(s) >= Len(p) /\ SubSeq(s, 1, Len(p)) = p

\* strings.TrimPrefix
TrimPrefix(s, p) ==
    IF HasPrefix(s, p) THEN SubSeq(s, Len(p) + 1, Len(s)) ELSE s

\* strings.Contains for one piece
Contains(s, piece) == \E i \in 1..Len(s) : s[i] = piece

RECURSIVE FirstClose(_, _)
\* the first "}" at or after position i, 0 when there is none
FirstClose(s, i) ==
    IF i > Len(s) THEN 0
    ELSE IF s[i] = "}" THEN i ELSE FirstClose(s, i + 1)

\* line 69, \${([>]{0,2}bao:.*?#*}?)}: the match that starts at position i,
\* as <<first, last>>, or <<0, 0>>; the lazy body ends at the first "}", and
\* a "}" that follows it at once is taken into the group
MatchAt(s, i) ==
    IF i > Len(s) \/ s[i] # "${" THEN <<0, 0>>
    ELSE LET b == IF i + 1 <= Len(s) /\ s[i + 1] \in {">", ">>"}
                  THEN i + 2 ELSE i + 1
         IN IF b > Len(s) \/ s[b] # "bao:" THEN <<0, 0>>
            ELSE LET j == FirstClose(s, b + 1)
                 IN IF j = 0 THEN <<0, 0>>
                    ELSE IF j + 1 <= Len(s) /\ s[j + 1] = "}"
                         THEN <<i, j + 1>> ELSE <<i, j>>

RECURSIVE FindFrom(_, _)
\* FindAllStringSubmatch(value, -1): the matches from left to right, without
\* overlap, each as <<whole match [0], group [1]>>
FindFrom(s, i) ==
    IF i > Len(s) THEN <<>>
    ELSE LET m == MatchAt(s, i)
         IN IF m[1] = 0 THEN FindFrom(s, i + 1)
            ELSE <<<<SubSeq(s, m[1], m[2]), SubSeq(s, m[1] + 1, m[2] - 1)>>>>
                     \o FindFrom(s, m[2] + 1)

FindInlineBaoDelimiters(value) == FindFrom(value, 1)

HasInlineBaoDelimiters(value) == Len(FindInlineBaoDelimiters(value)) > 0

RECURSIVE ReplaceAll(_, _, _)
\* strings.ReplaceAll
ReplaceAll(s, old, new) ==
    IF Len(s) = 0 \/ Len(old) = 0 THEN s
    ELSE IF HasPrefix(s, old)
         THEN new \o ReplaceAll(SubSeq(s, Len(old) + 1, Len(s)), old, new)
         ELSE <<s[1]>> \o ReplaceAll(Tail(s), old, new)

RECURSIVE IndexHash(_, _)
\* the first "#" at or after position i, 0 when there is none
IndexHash(s, i) ==
    IF i > Len(s) THEN 0
    ELSE IF s[i] = "#" THEN i ELSE IndexHash(s, i + 1)

RECURSIVE SplitN(_, _)
\* strings.SplitN(s, "#", n)
SplitN(s, n) ==
    LET h == IndexHash(s, 1)
    IN IF n <= 1 \/ h = 0 THEN <<s>>
       ELSE <<SubSeq(s, 1, h - 1)>> \o SplitN(SubSeq(s, h + 1, Len(s)), n - 1)

(***************************************************************************)
(* The injector's collaborators                                            *)
(***************************************************************************)
\* Transit.IsEncrypted: the value carries a transit ciphertext, the scheme
\* followed by a key version
IsEncrypted(value) ==
    \E i \in 1..(Len(value) - 1) : value[i] = "bao:" /\ value[i + 1] = "v1:"

\* the plaintext the transit engine holds for a ciphertext
Plaintext(ciphertext) == <<"plain", ciphertext[Len(ciphertext)]>>

\* Transit.DecryptBatchWithContext: every plaintext, or an error and no map
DecryptBatch(secrets, ok) ==
    IF ok
    THEN [k \in {secrets[i] : i \in 1..Len(secrets)} |-> Plaintext(k)]
    ELSE <<>>

\* templater.IsGoTemplate with the default delimiters "${" and "}"
IsGoTemplate(key) == Contains(key, "${") /\ Contains(key, "}")

\* templater.Template: ${.field} is rendered from the data, a field the data
\* does not have is rendered as "<no value>", anything else does not parse
Template(key, data) ==
    IF Len(key) = 4 /\ key[1] = "${" /\ key[2] = "." /\ key[4] = "}"
    THEN [err |-> FALSE,
          val |-> IF key[3] \in DOMAIN data /\ data[key[3]].kind = "string"
                  THEN data[key[3]].str ELSE <<"<no value>">>]
    ELSE [err |-> TRUE, val |-> <<>>]

\* json.Unmarshal into a map: the payload has to be a JSON object
ValidJSON(payload) ==
    Len(payload) >= 2 /\ payload[1] = "{" /\ payload[Len(payload)] = "}"

\* the attribute maps the server holds: a string, or a nested object
DataMaps ==
    {("k" :> [kind |-> "string", str |-> <<"s">>]),
     ("k" :> [kind |-> "map", str |-> <<>>]),
     ("other" :> [kind |-> "string", str |-> <<"o">>])}

\* the answers of Logical().ReadWithData / Write without a "data" entry:
\* an error, no secret, or a secret whose Data is the attribute map
Responses ==
    {[err |-> TRUE, isNil |-> TRUE, lease |-> 0, v2 |-> FALSE,
      metadata |-> "absent", data |-> <<>>],
     [err |-> FALSE, isNil |-> TRUE, lease |-> 0, v2 |-> FALSE,
      metadata |-> "absent", data |-> <<>>]}
    \cup [err : {FALSE}, isNil : {FALSE}, lease : {0, 1}, v2 : {FALSE},
          metadata : {"absent"}, data : DataMaps]

\* the answers whose Data holds the attributes, or nil, under "data"
\* (v2 = TRUE): with no "metadata" entry, with a nil one or one that is no
\* map, and with a metadata map of a version that is there ("map"), that is
\* destroyed (metadata.destroyed) or deleted (metadata.deletion_time)
VersionedResponses ==
    [err : {FALSE}, isNil : {FALSE}, lease : {0}, v2 : {TRUE},
     metadata : {"absent", "nil", "other", "map", "destroyed", "deleted"},
     data : {("k" :> [kind |-> "string", str |-> <<"s">>]), <<>>}]

(***************************************************************************)
(* The references callers pass in                                          *)
(***************************************************************************)
Literal == <<"lit">>
LiteralMarked == <<">>", "lit">>
Cipher1 == <<"bao:", "v1:", "c1">>
Cipher2 == <<"bao:", "v1:", "c2">>
Cipher3 == <<"bao:", "v1:", "c3">>
LiteralCipher == <<"x", "bao:", "v1:", "c1">>
InlineCipher == <<"x", "${", "bao:", "v1:", "c1", "}", "y">>
InlineTwo ==
    <<"${", "bao:", "v1:", "c1", "}", "-", "${", "bao:", "v1:", "c2", "}">>
InlineRef == <<"x", "${", "bao:", "p", "#", "k", "}">>
Ref == <<"bao:", "p", "#", "k">>
RefVersion == <<"bao:", "p", "#", "k", "#", "2">>
RefNoKey == <<"bao:", "p">>
RefTemplate == <<"bao:", "p", "#", "${", ".", "k", "}">>
RefWrite == <<">>", "bao:", "p", "#", "k">>
RefWriteBad == <<">>", "bao:", "p", "#", "k", "#", "2">>
TokenEcho == <<"bao:", "login">>
RefHashes == <<"bao:", "p", "#", "k", "#", "2", "#", "x">>
RefWritePayload == <<">>", "bao:", "p", "#", "k", "#", "{", "a", "#", "b", "}">>
RefBraces == <<"bao:", "p", "#", "k", "#", "{", "}">>

\* the references of the sequential runs
References ==
    {<<>>}
    \cup {("A" :> v) : v \in {Literal, LiteralMarked, Cipher1, InlineCipher,
                              InlineTwo, InlineRef, Ref, RefVersion,
                              RefNoKey, RefTemplate, RefWrite, RefWriteBad,
                              TokenEcho}}
    \cup {("BAO_TOKEN" :> TokenEcho), ("BAO_TOKEN" :> Literal)}
    \cup {("A" :> Cipher1) @@ ("B" :> Cipher1),
          ("A" :> Cipher1) @@ ("B" :> Cipher2),
          ("A" :> Cipher1) @@ ("B" :> InlineCipher),
          ("A" :> Ref) @@ ("B" :> Ref),
          ("A" :> Literal) @@ ("B" :> RefNoKey)}

\* the references of the concurrent runs
ConcurrentReferences ==
    {("A" :> v) : v \in {Literal, Cipher1, InlineCipher, Ref}}
    \cup {("BAO_TOKEN" :> TokenEcho)}

\* the references of the runs that look at the grammar: one entry each
GrammarReferences ==
    {("A" :> v) : v \in {Literal, Cipher1, InlineCipher, InlineRef,
                          Ref, RefVersion, RefHashes, RefNoKey,
                          RefTemplate, RefWrite, RefWritePayload,
                          RefWriteBad, TokenEcho}}
    \cup {("BAO_TOKEN" :> TokenEcho)}

\* the references of the runs that look at the transit engine: none, one,
\* two and three different ciphertexts, at the top level, in inline spans
\* and inside a literal
TransitReferences ==
    {("A" :> v) : v \in {Literal, LiteralCipher, Cipher1, InlineCipher,
                          InlineTwo, Ref}}
    \cup {("BAO_TOKEN" :> TokenEcho),
          ("A" :> Cipher1) @@ ("B" :> Cipher2),
          ("A" :> InlineTwo) @@ ("B" :> Cipher3)}

\* Config: TransitKeyID, IgnoreMissingSecrets, DaemonMode, TransitBatchSize
InjectorConfigs ==
    [keyID : {"", "mykey"},
     ignoreMissing : BOOLEAN,
     daemonMode : BOOLEAN,
     batchSize : 1..MaxBatchSize]

\* the goroutines that use the injector
Callers == {"c1", "c2"}
NoCaller == ""

\* a sync.RWMutex nobody holds
Unlocked == [readers |-> {}, writer |-> NoCaller]

\* the error values: nil, or a message and what it is about
NoError == [msg |-> "nil", arg |-> <<>>]
Error(msg, arg) == [msg |-> msg, arg |-> arg]

\* lines 58-67; in and quota say which calls the injector's users make
NewSecretInjector(config, in, q) ==
    /\ icfg = config
    /\ rw = Unlocked
    /\ transitCache = <<>>
    /\ secretCache = <<>>
    /\ stack = [c \in Callers |-> <<>>]
    /\ inputs = in
    /\ quota = q
    /\ args = [c \in Callers |-> <<>>]
    /\ sunk = [c \in Callers |-> <<>>]
    /\ result = [c \in Callers |-> NoError]
    /\ rpcs = [c \in Callers |-> <<>>]
    /\ stores = <<>>

(***************************************************************************)
(* SecretInjector.mu                                                       *)
(***************************************************************************)
\* mutant of LockMode: the secret cache is written under the read lock
LockMode_StoreUnderRLock(section) ==
    IF section \in {"store", "tstore"} THEN "w" ELSE "r"

\* the mode in which a section of the code takes i.mu: Lock at lines 89, 265
\* and 314, RLock at lines 133, 155, 174, 245 and 295
LockMode(section) ==
    IF section \in {"store", "tstore", "sstore"} THEN "w" ELSE "r"

\* RLock waits for the writer, Lock for the writer and every reader
CanLock(mode) ==
    IF mode = "w" THEN rw.readers = {} /\ rw.writer = NoCaller
    ELSE rw.writer = NoCaller

Locked(c, mode) ==
    IF mode = "w" THEN [rw EXCEPT !.writer = c]
    ELSE [rw EXCEPT !.readers = @ \cup {c}]

\* RUnlock or Unlock by the holder
Unlock(c) ==
    [readers |-> rw.readers \ {c},
     writer |-> IF rw.writer = c THEN NoCaller ELSE rw.writer]

(***************************************************************************)
(* The frames of InjectSecretsFromBaoWithContext                           *)
(***************************************************************************)
\* a call of InjectSecretsFromBaoWithContext: its position, its references
\* map, the names its range loop has still to visit, the batches still to
\* fetch, the entry at hand and its inline spans, what was fetched and is
\* about to be cached, the baoData map of GetDataFromBaoWithContext, and the
\* error it returns; direct marks a call of FetchTransitSecrets by a user
NewFrame(references) ==
    [pc |-> "scan", refs |-> references, todo |-> {}, chunks |-> <<>>,
     name |-> "", value |-> <<>>, spans |-> <<>>, got |-> <<>>,
     out |-> <<>>, err |-> NoError, direct |-> FALSE]

Depth(c) == Len(stack[c])
Top(c) == stack[c][Depth(c)]
SetTop(c, f) == [stack EXCEPT ![c][Depth(c)] = f]
At(c, pc) == stack[c] # <<>> /\ Top(c).pc = pc

\* mutant of Ret: the error is noted and the loop goes on with the entry
\* at hand
Ret_GoesOn(f, e) == [f EXCEPT !.err = e]

\* return err
Ret(f, e) == [f EXCEPT !.pc = "ret", !.err = e]

\* lines 141, 150: the loop over the batches is over; a direct call of
\* FetchTransitSecrets returns (line 95)
ToPreInject(f) ==
    IF f.pc = "fetch" /\ f.chunks = <<>>
    THEN IF f.direct THEN [f EXCEPT !.pc = "ret"]
         ELSE [f EXCEPT !.pc = "preinject", !.todo = DOMAIN f.refs]
    ELSE f

\* lines 152, 185, 193-198: the second loop of preprocessTransitSecrets is
\* over, it returns nil and the main loop begins
ToMain(f) ==
    IF f.pc = "preinject" /\ f.todo = {}
    THEN [f EXCEPT !.pc = "main", !.todo = DOMAIN f.refs] ELSE f

\* lines 198, 339: the main loop is over, return nil
ToReturn(f) ==
    IF f.pc = "main" /\ f.todo = {} THEN [f EXCEPT !.pc = "ret"] ELSE f

Advance(f) == ToReturn(ToMain(ToPreInject(f)))

\* inject(name, value): the caller's sink for the outermost call, and
\* baoData[key] = value (lines 484-486) for a call of GetDataFromBao
Inject(c, f, name, value) ==
    IF Depth(c) = 1 THEN f ELSE [f EXCEPT !.out = (name :> value) @@ @]

Sink(c, name, value, by) ==
    IF Depth(c) = 1
    THEN [sunk EXCEPT ![c] = Append(@, [name |-> name, value |-> value,
                                         by |-> by])]
    ELSE sunk

\* the entry is done: continue with the loop the frame is in
Continue(f, name) ==
    [f EXCEPT !.todo = @ \ {name}, !.name = "", !.value = <<>>,
              !.got = <<>>,
              !.pc = IF @ \in {"preinject", "preinjecting"}
                     THEN "preinject" ELSE "main"]

\* a request sent to the server and how it was answered
Request(op, name, arg, res) ==
    [op |-> op, name |-> name, arg |-> arg, res |-> res]

Sent(c, reqs) == [rpcs EXCEPT ![c] = @ \o reqs]

(***************************************************************************)
(* preprocessTransitSecrets (lines 114-186)                                *)
(***************************************************************************)
Range(s) == {s[i] : i \in 1..Len(s)}

\* lines 116-129
SecretSet(references) ==
    UNION {IF HasInlineBaoDelimiters(references[n])
           THEN {sp[2] : sp \in {m \in Range(FindInlineBaoDelimiters(
                                                 references[n])) :
                                     IsEncrypted(m[2])}}
           ELSE IF IsEncrypted(references[n]) THEN {references[n]} ELSE {}
           : n \in DOMAIN references}

\* the orders in which a range over a Go map can deliver the keys
Orderings(S) ==
    {s \in [1..Cardinality(S) -> S] :
        \A i, j \in 1..Cardinality(S) : s[i] = s[j] => i = j}

\* mutant of paginate: a last batch that is not full is left out
paginate_DropsRemainder(secrets, batchSize) ==
    [c \in 1..(Len(secrets) \div batchSize) |->
        SubSeq(secrets, (c - 1) * batchSize + 1, c * batchSize)]

\* lines 98-112
paginate(secrets, batchSize) ==
    [c \in 1..((Len(secrets) + batchSize - 1) \div batchSize) |->
        SubSeq(secrets, (c - 1) * batchSize + 1,
               Min(c * batchSize, Len(secrets)))]

\* a user of the injector calls InjectSecretsFromBao
InjectSecretsFromBao(c) ==
    /\ stack[c] = <<>>
    /\ quota[c] > 0
    /\ \E references \in inputs.references :
        /\ stack' = [stack EXCEPT ![c] = <<NewFrame(references)>>]
        /\ args' = [args EXCEPT ![c] = references]
    /\ quota' = [quota EXCEPT ![c] = @ - 1]
    /\ sunk' = [sunk EXCEPT ![c] = <<>>]
    /\ result' = [result EXCEPT ![c] = Error("running", <<>>)]
    /\ rpcs' = [rpcs EXCEPT ![c] = <<>>]
    /\ UNCHANGED <<icfg, rw, transitCache, secretCache, inputs, stores,
                   clientVars, histVars>>

\* a user of the injector calls FetchTransitSecrets (lines 71-73)
FetchTransitSecretsCall(c) ==
    /\ stack[c] = <<>>
    /\ quota[c] > 0
    /\ \E secrets \in inputs.secrets :
        stack' = [stack EXCEPT ![c] =
                    <<[NewFrame(<<>>) EXCEPT !.pc = "fetch",
                                             !.chunks = <<secrets>>,
                                             !.direct = TRUE]>>]
    /\ args' = [args EXCEPT ![c] = <<>>]
    /\ quota' = [quota EXCEPT ![c] = @ - 1]
    /\ sunk' = [sunk EXCEPT ![c] = <<>>]
    /\ result' = [result EXCEPT ![c] = Error("running", <<>>)]
    /\ rpcs' = [rpcs EXCEPT ![c] = <<>>]
    /\ UNCHANGED <<icfg, rw, transitCache, secretCache, inputs, stores,
                   clientVars, histVars>>

\* lines 116-133: the set of ciphertexts is built, then i.mu.RLock()
PreScanLock(c) ==
    /\ At(c, "scan")
    /\ CanLock(LockMode("filter"))
    /\ rw' = Locked(c, LockMode("filter"))
    /\ stack' = SetTop(c, [Top(c) EXCEPT !.pc = "filter"])
    /\ UNCHANGED <<icfg, transitCache, secretCache, inputs, quota, args,
                   sunk, result, rpcs, stores, clientVars, histVars>>

\* lines 134-141: the cached ones are left out, RUnlock, and the rest, in
\* the order the map range gives them, is cut into batches
PreScan(c) ==
    /\ At(c, "filter")
    /\ rw' = Unlock(c)
    /\ LET uncached == {k \in SecretSet(Top(c).refs) :
                            k \notin DOMAIN transitCache}
       IN \E secrets \in Orderings(uncached) :
            stack' = SetTop(c, Advance(
                [Top(c) EXCEPT !.pc = "fetch",
                               !.chunks = paginate(secrets,
                                                   icfg.batchSize)]))
    /\ UNCHANGED <<icfg, transitCache, secretCache, inputs, quota, args,
                   sunk, result, rpcs, stores, clientVars, histVars>>

\* lines 75-89 and 141-150: one batch. With no key id the error goes to the
\* caller; a DecryptBatch error is only logged; then i.mu.Lock()
FetchTransitSecrets(c) ==
    /\ At(c, "fetch")
    /\ Top(c).chunks # <<>>
    /\ LET sec == Head(Top(c).chunks)
           rest == Advance([Top(c) EXCEPT !.chunks = Tail(@)])
           noKey == Error("transit key ID is empty", <<>>)
       IN IF icfg.keyID = ""
          THEN /\ stack' = SetTop(c,
                     IF Top(c).direct THEN Ret(Top(c), noKey)
                     ELSE IF icfg.ignoreMissing THEN rest
                     ELSE Ret(Top(c), Error(
                            "unable to preprocess transit secrets", <<>>)))
               /\ UNCHANGED <<rw, rpcs>>
          ELSE IF sec = <<>>
          THEN /\ stack' = SetTop(c, rest)
               /\ UNCHANGED <<rw, rpcs>>
          ELSE \E ok \in BOOLEAN :
               /\ CanLock(LockMode("store"))
               /\ rw' = Locked(c, LockMode("store"))
               /\ rpcs' = Sent(c, <<Request("decryptBatch", "", sec,
                                            IF ok THEN "ok" ELSE "err")>>)
               /\ stack' = SetTop(c, [Top(c) EXCEPT
                                        !.pc = "store",
                                        !.got = DecryptBatch(sec, ok)])
    /\ UNCHANGED <<icfg, transitCache, secretCache, inputs, quota, args,
                   sunk, result, stores, clientVars, histVars>>

\* lines 90-95: the answers go into the cache, Unlock, return out, nil
FetchStore(c) ==
    /\ At(c, "store")
    /\ transitCache' = Top(c).got @@ transitCache
    /\ rw' = Unlock(c)
    /\ stack' = SetTop(c, Advance([Top(c) EXCEPT !.pc = "fetch",
                                                 !.chunks = Tail(@),
                                                 !.got = <<>>]))
    /\ UNCHANGED <<icfg, secretCache, inputs, quota, args, sunk, result,
                   rpcs, stores, clientVars, histVars>>

RECURSIVE NewValue(_, _, _)
\* lines 154-160: every span looks its whole match up in the cache and
\* replaces it in value
NewValue(value, spans, acc) ==
    IF spans = <<>> THEN acc
    ELSE NewValue(value, Tail(spans),
                  IF Head(spans)[1] \in DOMAIN transitCache
                  THEN ReplaceAll(value, Head(spans)[1],
                                  transitCache[Head(spans)[1]])
                  ELSE acc)

\* lines 153-182 for one entry: whether inject is called, with which value,
\* and whether the entry is deleted from the references
PreInjectOne(value) ==
    IF HasInlineBaoDelimiters(value)
    THEN LET newValue == NewValue(value, FindInlineBaoDelimiters(value),
                                  value)
         IN [sink |-> value # newValue, val |-> value,
             del |-> value # newValue]
    ELSE IF IsEncrypted(value) /\ value \in DOMAIN transitCache
         THEN [sink |-> TRUE, val |-> transitCache[value], del |-> FALSE]
         ELSE [sink |-> FALSE, val |-> <<>>, del |-> FALSE]

\* the entries for which the second loop reads the cache
ReadsTransitCache(value) ==
    HasInlineBaoDelimiters(value) \/ IsEncrypted(value)

\* lines 152-155, 173-174: an entry with inline spans or a ciphertext,
\* i.mu.RLock()
PreInjectLock(c) ==
    /\ At(c, "preinject")
    /\ CanLock(LockMode("preinjecting"))
    /\ rw' = Locked(c, LockMode("preinjecting"))
    /\ \E name \in Top(c).todo :
        /\ ReadsTransitCache(Top(c).refs[name])
        /\ stack' = SetTop(c, [Top(c) EXCEPT !.pc = "preinjecting",
                                             !.name = name])
    /\ UNCHANGED <<icfg, transitCache, secretCache, inputs, quota, args,
                   sunk, result, rpcs, stores, clientVars, histVars>>

\* lines 156-182: the cache is read, RUnlock, inject and delete
PreInject(c) ==
    /\ At(c, "preinjecting")
    /\ rw' = Unlock(c)
    /\ LET name == Top(c).name
           r == PreInjectOne(Top(c).refs[name])
           f == IF r.sink THEN Inject(c, Top(c), name, r.val) ELSE Top(c)
           g == IF r.del
                THEN [f EXCEPT !.refs = [n \in DOMAIN @ \ {name} |-> @[n]]]
                ELSE f
       IN /\ stack' = SetTop(c, Advance(Continue(g, name)))
          /\ sunk' = IF r.sink THEN Sink(c, name, r.val, "pre") ELSE sunk
    /\ UNCHANGED <<icfg, transitCache, secretCache, inputs, quota, args,
                   result, rpcs, stores, clientVars, histVars>>

\* lines 152-183: any other entry is passed over
PreInjectPass(c) ==
    /\ At(c, "preinject")
    /\ \E name \in Top(c).todo :
        /\ ~ReadsTransitCache(Top(c).refs[name])
        /\ stack' = SetTop(c, Advance(Continue(Top(c), name)))
    /\ UNCHANGED <<icfg, rw, transitCache, secretCache, inputs, quota, args,
                   sunk, result, rpcs, stores, clientVars, histVars>>

(***************************************************************************)
(* InjectSecretsFromBaoWithContext: the main loop (lines 198-339)          *)
(***************************************************************************)
\* mutant of Unmarked: the marker is cut off whatever follows it
Unmarked_AnyMarker(value) == TrimPrefix(value, <<">>">>)

\* lines 215-220: value without the write marker
Unmarked(value) ==
    IF HasPrefix(value, <<">>", "bao:">>) THEN TrimPrefix(value, <<">>">>)
    ELSE value

\* mutant of Branch: the token echo does not look at the name
Branch_EchoUnderAnyName(name, value) ==
    IF HasInlineBaoDelimiters(value) THEN "inline"
    ELSE IF ~HasPrefix(Unmarked(value), <<"bao:">>) THEN "literal"
    ELSE IF TrimPrefix(Unmarked(value), <<"bao:">>) = <<"login">>
         THEN "echo"
    ELSE IF IsEncrypted(Unmarked(value)) THEN "transit"
    ELSE "secret"

\* the branch of the main loop an entry takes
Branch(name, value) ==
    IF HasInlineBaoDelimiters(value) THEN "inline"
    ELSE IF ~HasPrefix(Unmarked(value), <<"bao:">>) THEN "literal"
    ELSE IF name = "BAO_TOKEN"
            /\ TrimPrefix(Unmarked(value), <<"bao:">>) = <<"login">>
         THEN "echo"
    ELSE IF IsEncrypted(Unmarked(value)) THEN "transit"
    ELSE "secret"

\* lines 199-200: an entry with inline spans
MainInline(c) ==
    /\ At(c, "main")
    /\ \E name \in Top(c).todo :
        /\ Branch(name, Top(c).refs[name]) = "inline"
        /\ stack' = SetTop(c, [Top(c) EXCEPT
                !.pc = "span", !.name = name, !.value = Top(c).refs[name],
                !.spans = FindInlineBaoDelimiters(Top(c).refs[name])])
    /\ UNCHANGED <<icfg, rw, transitCache, secretCache, inputs, quota, args,
                   sunk, result, rpcs, stores, clientVars, histVars>>

\* lines 201, 481-488: the span's group is resolved by a call of its own
GetDataFromBaoWithContext(c) ==
    /\ At(c, "span")
    /\ Top(c).spans # <<>>
    /\ stack' = [stack EXCEPT ![c] =
                    Append(@, NewFrame(Top(c).name :> Head(Top(c).spans)[2]))]
    /\ UNCHANGED <<icfg, rw, transitCache, secretCache, inputs, quota, args,
                   sunk, result, rpcs, stores, clientVars, histVars>>

\* lines 202-207: the call returns baoData and its error
GetDataFromBaoReturns(c) ==
    /\ Depth(c) > 1
    /\ Top(c).pc = "ret"
    /\ LET caller == stack[c][Depth(c) - 1]
           mapData == Top(c).out
           whole == Head(caller.spans)[1]
           resumed ==
               IF Top(c).err # NoError THEN Ret(caller, Top(c).err)
               ELSE [caller EXCEPT
                       !.value = IF caller.name \in DOMAIN mapData
                                 THEN ReplaceAll(@, whole,
                                                 mapData[caller.name])
                                 ELSE @,
                       !.spans = Tail(@)]
       IN stack' = [stack EXCEPT ![c] =
                        SubSeq(@, 1, Depth(c) - 2) \o <<resumed>>]
    /\ UNCHANGED <<icfg, rw, transitCache, secretCache, inputs, quota, args,
                   sunk, result, rpcs, stores, clientVars, histVars>>

\* lines 209-211
InjectInline(c) ==
    /\ At(c, "span")
    /\ Top(c).spans = <<>>
    /\ stack' = SetTop(c, Advance(Continue(
            Inject(c, Top(c), Top(c).name, Top(c).value), Top(c).name)))
    /\ sunk' = Sink(c, Top(c).name, Top(c).value, "main")
    /\ UNCHANGED <<icfg, rw, transitCache, secretCache, inputs, quota, args,
                   result, rpcs, stores, clientVars, histVars>>

\* lines 222-226
MainLiteral(c) ==
    /\ At(c, "main")
    /\ \E name \in Top(c).todo :
        /\ Branch(name, Top(c).refs[name]) = "literal"
        /\ stack' = SetTop(c, Advance(Continue(
                Inject(c, Top(c), name, Unmarked(Top(c).refs[name])),
                name)))
        /\ sunk' = Sink(c, name, Unmarked(Top(c).refs[name]), "main")
    /\ UNCHANGED <<icfg, rw, transitCache, secretCache, inputs, quota, args,
                   result, rpcs, stores, clientVars, histVars>>

\* lines 232-237
MainTokenEcho(c) ==
    /\ At(c, "main")
    /\ \E name \in Top(c).todo :
        /\ Branch(name, Top(c).refs[name]) = "echo"
        /\ stack' = SetTop(c, Advance(Continue(
                Inject(c, Top(c), name, <<token>>), name)))
        /\ sunk' = Sink(c, name, <<token>>, "main")
    /\ UNCHANGED <<icfg, rw, transitCache, secretCache, inputs, quota, args,
                   result, rpcs, stores, clientVars, histVars>>

\* lines 240-245: a ciphertext; with no key id the call ends, otherwise
\* i.mu.RLock()
MainTransitLock(c) ==
    /\ At(c, "main")
    /\ \E name \in Top(c).todo :
        /\ Branch(name, Top(c).refs[name]) = "transit"
        /\ IF icfg.keyID = ""
           THEN /\ stack' = SetTop(c, Ret(Top(c),
                        Error("transit key ID is empty", <<name>>)))
                /\ rw' = rw
           ELSE /\ CanLock(LockMode("tread"))
                /\ rw' = Locked(c, LockMode("tread"))
                /\ stack' = SetTop(c, [Top(c) EXCEPT
                        !.pc = "tread", !.name = name,
                        !.value = Unmarked(Top(c).refs[name])])
    /\ UNCHANGED <<icfg, transitCache, secretCache, inputs, quota, args,
                   sunk, result, rpcs, stores, clientVars, histVars>>

\* lines 246-263: the cache is read, RUnlock; on a miss the ciphertext is
\* decrypted by a call of its own
MainTransit(c) ==
    /\ At(c, "tread")
    /\ rw' = Unlock(c)
    /\ LET name == Top(c).name
           value == Top(c).value
       IN IF value \in DOMAIN transitCache
          THEN /\ stack' = SetTop(c, Advance(Continue(
                        Inject(c, Top(c), name, transitCache[value]),
                        name)))
               /\ sunk' = Sink(c, name, transitCache[value], "main")
               /\ rpcs' = rpcs
          ELSE \E ok \in BOOLEAN :
               /\ rpcs' = Sent(c, <<Request("decrypt", name, <<value>>,
                                            IF ok THEN "ok" ELSE "err")>>)
               /\ sunk' = sunk
               /\ stack' = SetTop(c,
                    IF ok
                    THEN [Top(c) EXCEPT !.pc = "tlock",
                                        !.got = Plaintext(value)]
                    ELSE IF icfg.ignoreMissing
                    THEN Advance(Continue(Top(c), name))
                    ELSE Ret(Top(c), Error("failed to decrypt variable",
                                           <<name>>)))
    /\ UNCHANGED <<icfg, transitCache, secretCache, inputs, quota, args,
                   result, stores, clientVars, histVars>>

\* line 265: i.mu.Lock()
MainTransitStoreLock(c) ==
    /\ At(c, "tlock")
    /\ CanLock(LockMode("tstore"))
    /\ rw' = Locked(c, LockMode("tstore"))
    /\ stack' = SetTop(c, [Top(c) EXCEPT !.pc = "tstore"])
    /\ UNCHANGED <<icfg, transitCache, secretCache, inputs, quota, args,
                   sunk, result, rpcs, stores, clientVars, histVars>>

\* lines 266-271: the plaintext goes into the cache, Unlock, inject
MainTransitStore(c) ==
    /\ At(c, "tstore")
    /\ transitCache' = (Top(c).value :> Top(c).got) @@ transitCache
    /\ rw' = Unlock(c)
    /\ stack' = SetTop(c, Advance(Continue(
            Inject(c, Top(c), Top(c).name, Top(c).got), Top(c).name)))
    /\ sunk' = Sink(c, Top(c).name, Top(c).got, "main")
    /\ UNCHANGED <<icfg, secretCache, inputs, quota, args, result, rpcs,
                   stores, clientVars, histVars>>

\* how the store has answered a request: with an error ("err"), with no
\* secret ("missing"), with a secret that has a lease ("leased"), with a
\* secret whose Data has a "data" entry but no metadata map ("malformed"),
\* with a version of a secret that is there ("versioned"), destroyed
\* ("destroyed") or deleted ("deleted"), or with any other secret ("ok")
Answer(resp) ==
    IF resp.err THEN "err"
    ELSE IF resp.isNil THEN "missing"
    ELSE IF resp.lease > 0 THEN "leased"
    ELSE IF ~resp.v2 THEN "ok"
    ELSE IF resp.metadata \in {"absent", "nil", "other"} THEN "malformed"
    ELSE IF resp.metadata = "map" THEN "versioned"
    ELSE resp.metadata

\* the attributes of a secret seen from the top level, as cast.ToStringMap
\* of secret.Data gives them: "data" and "metadata" are nested objects
TopLevel(resp) ==
    IF resp.v2
    THEN ("data" :> [kind |-> "map", str |-> <<>>])
         @@ (IF resp.metadata = "absent" THEN <<>>
             ELSE ("metadata" :> [kind |-> "map", str |-> <<>>]))
    ELSE resp.data

\* mutant of SecretData: the attributes are always those of the top level
SecretData_TopLevelOnly(resp) == [err |-> NoError, data |-> TopLevel(resp)]

\* lines 426-462: the attributes under "data" when Data has that entry and
\* a metadata map next to it, whatever that map says of the version;
\* otherwise the attributes of the top level
SecretData(resp) ==
    IF resp.v2 /\ resp.metadata \in {"absent", "nil"}
    THEN [err |-> Error("metadata key not found or is nil in secret", <<>>),
          data |-> <<>>]
    ELSE IF resp.v2 /\ resp.metadata = "other"
    THEN [err |-> Error("metadata has an unexpected type", <<>>),
          data |-> <<>>]
    ELSE IF resp.v2 THEN [err |-> NoError, data |-> resp.data]
    ELSE [err |-> NoError, data |-> TopLevel(resp)]

\* mutant of readBaoPath: a lease is renewed whatever the mode
readBaoPath_RenewsInAnyMode(name, path, versionOrData, update, resp, renewOk) ==
    LET op == IF update THEN "write" ELSE "read"
        res == Answer(resp)
        request == Request(op, name, <<path, versionOrData>>, res)
        renews == ~resp.isNil /\ resp.lease > 0
        renewal == IF renews
                   THEN <<Request("renew", name, <<path>>,
                                  IF renewOk THEN "ok" ELSE "err")>>
                   ELSE <<>>
        none == [isNil |-> TRUE, data |-> <<>>]
    IN IF update /\ ~ValidJSON(versionOrData)
       THEN none @@ [err |-> Error("failed to unmarshal data for writing",
                                   <<>>),
                     reqs |-> <<>>]
       ELSE IF resp.err
       THEN none @@ [err |-> Error(IF update
                                   THEN "failed to write secret to path"
                                   ELSE "failed to read secret from path",
                                   path),
                     reqs |-> <<request>>]
       ELSE IF renews /\ ~renewOk
       THEN none @@ [err |-> Error("secret renewal can't be established",
                                   <<>>),
                     reqs |-> <<request>> \o renewal]
       ELSE IF resp.isNil
       THEN none @@ [err |-> NoError, reqs |-> <<request>> \o renewal]
       ELSE IF SecretData(resp).err # NoError
       THEN none @@ [err |-> SecretData(resp).err,
                     reqs |-> <<request>> \o renewal]
       ELSE [isNil |-> FALSE, data |-> SecretData(resp).data,
             err |-> NoError, reqs |-> <<request>> \o renewal]

\* lines 385-463: the secret data, the error, and the requests made
readBaoPath(name, path, versionOrData, update, resp, renewOk) ==
    LET op == IF update THEN "write" ELSE "read"
        res == Answer(resp)
        request == Request(op, name, <<path, versionOrData>>, res)
        renews == icfg.daemonMode /\ ~resp.isNil /\ resp.lease > 0
        renewal == IF renews
                   THEN <<Request("renew", name, <<path>>,
                                  IF renewOk THEN "ok" ELSE "err")>>
                   ELSE <<>>
        none == [isNil |-> TRUE, data |-> <<>>]
    IN IF update /\ ~ValidJSON(versionOrData)
       THEN none @@ [err |-> Error("failed to unmarshal data for writing",
                                   <<>>),
                     reqs |-> <<>>]
       ELSE IF resp.err
       THEN none @@ [err |-> Error(IF update
                                   THEN "failed to write secret to path"
                                   ELSE "failed to read secret from path",
                                   path),
                     reqs |-> <<request>>]
       ELSE IF renews /\ ~renewOk
       THEN none @@ [err |-> Error("secret renewal can't be established",
                                   <<>>),
                     reqs |-> <<request>> \o renewal]
       ELSE IF resp.isNil
       THEN none @@ [err |-> NoError, reqs |-> <<request>> \o renewal]
       ELSE IF SecretData(resp).err # NoError
       THEN none @@ [err |-> SecretData(resp).err,
                     reqs |-> <<request>> \o renewal]
       ELSE [isNil |-> FALSE, data |-> SecretData(resp).data,
             err |-> NoError, reqs |-> <<request>> \o renewal]

\* mutant of ResolveKey: the attribute's name is delivered, not its value
ResolveKey_DeliversKey(key, data, path) ==
    IF Len(key) = 1 /\ key[1] \in DOMAIN data
    THEN [err |-> NoError, val |-> key]
    ELSE [err |-> Error("key not found under path", <<key, path>>),
          val |-> <<>>]

\* mutant of ResolveKey: a key the data does not have gives the empty string
ResolveKey_MissingKeyEmpty(key, data, path) ==
    IF IsGoTemplate(key)
    THEN LET t == Template(key, data)
         IN IF t.err
            THEN [err |-> Error(
                    "failed to interpolate template key with bao data", key),
                  val |-> <<>>]
            ELSE [err |-> NoError, val |-> t.val]
    ELSE IF Len(key) = 1 /\ key[1] \in DOMAIN data
    THEN IF data[key[1]].kind = "string"
         THEN [err |-> NoError, val |-> data[key[1]].str]
         ELSE [err |-> Error("value can't be cast to a string", <<>>),
               val |-> <<>>]
    ELSE [err |-> NoError, val |-> <<>>]

\* lines 318-336: the key is a template or an attribute of the data
ResolveKey(key, data, path) ==
    IF IsGoTemplate(key)
    THEN LET t == Template(key, data)
         IN IF t.err
            THEN [err |-> Error(
                    "failed to interpolate template key with bao data", key),
                  val |-> <<>>]
            ELSE [err |-> NoError, val |-> t.val]
    ELSE IF Len(key) = 1 /\ key[1] \in DOMAIN data
    THEN IF data[key[1]].kind = "string"
         THEN [err |-> NoError, val |-> data[key[1]].str]
         ELSE [err |-> Error("value can't be cast to a string", <<>>),
               val |-> <<>>]
    ELSE [err |-> Error("key not found under path", <<key, path>>),
          val |-> <<>>]

\* mutant of ParseReference: the third segment ends at the next "#"
ParseReference_SplitsEveryHash(value) ==
    LET update == HasPrefix(value, <<">>", "bao:">>)
        split == SplitN(TrimPrefix(Unmarked(value), <<"bao:">>), 3)
        h == IF Len(split) = 3 THEN IndexHash(split[3], 1) ELSE 0
    IN [update |-> update,
        defined |-> Len(split) >= 2,
        path |-> split[1],
        key |-> IF Len(split) >= 2 THEN split[2] ELSE <<>>,
        versionOrData |-> IF Len(split) = 3
                          THEN IF h = 0 THEN split[3]
                               ELSE SubSeq(split[3], 1, h - 1)
                          ELSE IF update THEN <<"{", "}">> ELSE <<"-1">>]

\* lines 274-291: path, key and version or payload of a reference
ParseReference(value) ==
    LET update == HasPrefix(value, <<">>", "bao:">>)
        split == SplitN(TrimPrefix(Unmarked(value), <<"bao:">>), 3)
    IN [update |-> update,
        defined |-> Len(split) >= 2,
        path |-> split[1],
        key |-> IF Len(split) >= 2 THEN split[2] ELSE <<>>,
        versionOrData |-> IF Len(split) = 3 THEN split[3]
                          ELSE IF update THEN <<"{", "}">> ELSE <<"-1">>]

\* line 291
SecretCacheKey(ref) == ref.path \o <<"#">> \o ref.versionOrData

\* mutant of CachedSecret: the cache is never hit
CachedSecret_Never(cache, key) == FALSE

\* line 296
CachedSecret(cache, key) == key \in DOMAIN cache

\* mutant of StoreSecret: an entry the cache already has is kept
StoreSecret_KeepsFirst(cache, key, data) == cache @@ (key :> data)

\* line 315
StoreSecret(cache, key, data) == (key :> data) @@ cache

\* mutant of MissingPath: a missing path always ends the call
MissingPath_AlwaysFatal(f, name, path) ==
    Ret(f, Error("path not found", path))

\* mutant of MissingPath: the empty answer is put into the cache
MissingPath_CachesNothing(f, name, path) ==
    [f EXCEPT !.pc = "slock", !.got = [data |-> <<>>, fresh |-> TRUE]]

\* lines 305-312: no secret under the path
MissingPath(f, name, path) ==
    IF icfg.ignoreMissing THEN Advance(Continue(f, name))
    ELSE Ret(f, Error("path not found", path))

\* lines 274-295: a reference to a secret; without a key the call ends,
\* otherwise i.mu.RLock()
MainSecretLock(c) ==
    /\ At(c, "main")
    /\ \E name \in Top(c).todo :
        /\ Branch(name, Top(c).refs[name]) = "secret"
        /\ IF ~ParseReference(Top(c).refs[name]).defined
           THEN /\ stack' = SetTop(c, Ret(Top(c), Error(
                        "secret data key or template not defined", <<>>)))
                /\ rw' = rw
           ELSE /\ CanLock(LockMode("sread"))
                /\ rw' = Locked(c, LockMode("sread"))
                /\ stack' = SetTop(c, [Top(c) EXCEPT
                        !.pc = "sread", !.name = name,
                        !.value = Top(c).refs[name]])
    /\ UNCHANGED <<icfg, transitCache, secretCache, inputs, quota, args,
                   sunk, result, rpcs, stores, clientVars, histVars>>

\* lines 296-312: the cache is read and, on a miss, the store is asked,
\* all under the read lock; RUnlock
MainSecret(c) ==
    /\ At(c, "sread")
    /\ rw' = Unlock(c)
    /\ \E resp \in inputs.responses, renewOk \in BOOLEAN :
        LET name == Top(c).name
            ref == ParseReference(Top(c).value)
            secretCacheKey == SecretCacheKey(ref)
            cached == CachedSecret(secretCache, secretCacheKey)
            read == IF cached
                    THEN [isNil |-> FALSE,
                          data |-> secretCache[secretCacheKey],
                          err |-> NoError, reqs |-> <<>>]
                    ELSE readBaoPath(name, ref.path, ref.versionOrData,
                                     ref.update, resp, renewOk)
        IN /\ rpcs' = Sent(c, read.reqs)
           /\ stack' = SetTop(c,
                IF read.err # NoError THEN Ret(Top(c), read.err)
                ELSE IF read.isNil THEN MissingPath(Top(c), name, ref.path)
                ELSE [Top(c) EXCEPT
                        !.pc = "slock",
                        !.got = [data |-> read.data, fresh |-> ~cached]])
    /\ UNCHANGED <<icfg, transitCache, secretCache, inputs, quota, args,
                   sunk, result, stores, clientVars, histVars>>

\* line 314: i.mu.Lock()
MainSecretStoreLock(c) ==
    /\ At(c, "slock")
    /\ CanLock(LockMode("sstore"))
    /\ rw' = Locked(c, LockMode("sstore"))
    /\ stack' = SetTop(c, [Top(c) EXCEPT !.pc = "sstore"])
    /\ UNCHANGED <<icfg, transitCache, secretCache, inputs, quota, args,
                   sunk, result, rpcs, stores, clientVars, histVars>>

\* lines 315-336: the data goes into the cache, Unlock, and the key is
\* resolved against it
MainSecretStore(c) ==
    /\ At(c, "sstore")
    /\ rw' = Unlock(c)
    /\ LET name == Top(c).name
           ref == ParseReference(Top(c).value)
           data == Top(c).got.data
           r == ResolveKey(ref.key, data, ref.path)
       IN /\ secretCache' = StoreSecret(secretCache, SecretCacheKey(ref),
                                        data)
          /\ stores' = Append(stores, [by |-> c, key |-> SecretCacheKey(ref),
                                       data |-> data,
                                       fresh |-> Top(c).got.fresh,
                                       update |-> ref.update])
          /\ IF r.err # NoError
             THEN /\ stack' = SetTop(c, Ret(Top(c), r.err))
                  /\ sunk' = sunk
             ELSE /\ stack' = SetTop(c, Advance(Continue(
                        Inject(c, Top(c), name, r.val), name)))
                  /\ sunk' = Sink(c, name, r.val, "main")
    /\ UNCHANGED <<icfg, transitCache, inputs, quota, args, result, rpcs,
                   clientVars, histVars>>

\* the outermost call returns to the caller
InjectSecretsFromBaoReturns(c) ==
    /\ Depth(c) = 1
    /\ Top(c).pc = "ret"
    /\ result' = [result EXCEPT ![c] = Top(c).err]
    /\ stack' = [stack EXCEPT ![c] = <<>>]
    /\ UNCHANGED <<icfg, rw, transitCache, secretCache, inputs, quota, args,
                   sunk, rpcs, stores, clientVars, histVars>>

InjectorNext ==
    \E c \in Callers :
        \/ InjectSecretsFromBao(c)
        \/ FetchTransitSecretsCall(c)
        \/ PreScanLock(c)
        \/ PreScan(c)
        \/ FetchTransitSecrets(c)
        \/ FetchStore(c)
        \/ PreInjectLock(c)
        \/ PreInject(c)
        \/ PreInjectPass(c)
        \/ MainInline(c)
        \/ GetDataFromBaoWithContext(c)
        \/ GetDataFromBaoReturns(c)
        \/ InjectInline(c)
        \/ MainLiteral(c)
        \/ MainTokenEcho(c)
        \/ MainTransitLock(c)
        \/ MainTransit(c)
        \/ MainTransitStoreLock(c)
        \/ MainTransitStore(c)
        \/ MainSecretLock(c)
        \/ MainSecret(c)
        \/ MainSecretStoreLock(c)
        \/ MainSecretStore(c)
        \/ InjectSecretsFromBaoReturns(c)

(***************************************************************************)
(* The specifications                                                      *)
(***************************************************************************)
\* the injector's configuration while the client is looked at
ZeroConfig ==
    [keyID |-> "", ignoreMissing |-> FALSE, daemonMode |-> FALSE,
     batchSize |-> 1]

\* no calls at all
NoInputs == [references |-> {}, secrets |-> {}, responses |-> {}]

\* a handle built on the token option, returned to its owner
ClientReturned ==
    /\ cfg = [token |-> "s.option", rawToken |-> NoToken, tokenPath |-> "",
              envTokenPath |-> "", readable |-> {}, caReload |-> FALSE]
    /\ boot = "returned"
    /\ token = "s.option"
    /\ closed = FALSE
    /\ tokenWatcher = NoWatcher
    /\ watch = "none"
    /\ mu = "free"
    /\ looppc = "none"
    /\ localWatcher = NoWatcher
    /\ secret = NoToken
    /\ initialTokenArrived = 0
    /\ initialTokenSent = FALSE
    /\ wstate = [w \in Watchers |-> "free"]
    /\ wstopped = [w \in Watchers |-> FALSE]
    /\ renewCh = [w \in Watchers |-> FALSE]
    /\ fwpc = "none"
    /\ caReloaded = FALSE
    /\ userpc = "idle"
    /\ observedClosed = FALSE
    /\ arrival = "start"
    /\ loginCalled = FALSE
    /\ loginsAfterClose = 0
    /\ sends = 0
    /\ closeCalls = 0
    /\ everSucceeded = FALSE
    /\ succeededAtTimeout = FALSE

Init ==
    ClientInit /\ NewSecretInjector(ZeroConfig, NoInputs, [c \in Callers |-> 0])

Spec == Init /\ [][Next]_vars

\* the fairness of the goroutines: the constructor and the login goroutine
\* keep running, whoever holds client.mu runs on to its Unlock, sync.Mutex
\* hands the lock to a waiter that keeps asking, and the login collaborator
\* does not fail for ever
FairSpec ==
    /\ Spec
    /\ WF_vars(NewClientFromRawClientWithContext)
    /\ WF_vars(LoopNext)
    /\ WF_vars(TimeoutClose)
    /\ WF_vars(UserClose)
    /\ WF_vars(FileWatchCheck)
    /\ SF_vars(LoopLock)
    /\ SF_vars(SetWatcherLock)
    /\ SF_vars(LoginSucceeds)

\* the client under every choice of the token sources; when a login is
\* needed, every token file but the one at o.tokenPath can be read
SourceConfigs ==
    {c \in AllConfigs :
        /\ c.caReload
        /\ NeedsLogin(c) => c.readable = TokenFiles \ {TokenPath(c)}}

SourcesInit ==
    /\ ClientInitFrom(SourceConfigs)
    /\ NewSecretInjector(ZeroConfig, NoInputs, [c \in Callers |-> 0])

SourcesSpec == SourcesInit /\ [][Next]_vars

\* the injector of a returned handle, under every configuration, used by
\* one caller that makes its calls one after the other
InjectorInit ==
    /\ ClientReturned
    /\ \E config \in InjectorConfigs :
        NewSecretInjector(config,
                          [references |-> References,
                           secrets |-> {<<Cipher1>>, <<>>},
                           responses |-> Responses],
                          [c \in Callers |-> IF c = "c1" THEN MaxCalls ELSE 0])

InjectorSpec == InjectorInit /\ [][InjectorNext]_vars

\* the injector used by two callers at once, each making one call
ConcurrentConfigs ==
    [keyID : {"mykey"}, ignoreMissing : BOOLEAN, daemonMode : {FALSE},
     batchSize : {1}]

ConcurrentInit ==
    /\ ClientReturned
    /\ \E config \in ConcurrentConfigs :
        NewSecretInjector(config,
                          [references |-> ConcurrentReferences,
                           secrets |-> {<<Cipher1>>},
                           responses |-> Responses],
                          [c \in Callers |-> 1])

ConcurrentSpec == ConcurrentInit /\ [][InjectorNext]_vars

\* the injector with and without a transit key, with every batch size,
\* used by one caller that makes its calls one after the other
TransitConfigs ==
    [keyID : {"", "mykey"}, ignoreMissing : BOOLEAN, daemonMode : {FALSE},
     batchSize : 1..MaxBatchSize]

TransitInit ==
    /\ ClientReturned
    /\ \E config \in TransitConfigs :
        NewSecretInjector(config,
                          [references |-> TransitReferences,
                           secrets |-> {<<Cipher1, Cipher2, Cipher3>>},
                           responses |-> Responses],
                          [c \in Callers |-> IF c = "c1" THEN MaxCalls ELSE 0])

TransitSpec == TransitInit /\ [][InjectorNext]_vars

\* the injector with a transit key, used by one caller that makes its
\* calls one after the other, each with one reference of a shape of the
\* grammar
GrammarConfigs ==
    [keyID : {"mykey"}, ignoreMissing : BOOLEAN, daemonMode : BOOLEAN,
     batchSize : {1}]

GrammarInit ==
    /\ ClientReturned
    /\ \E config \in GrammarConfigs :
        NewSecretInjector(config,
                          [references |-> GrammarReferences,
                           secrets |-> {<<Cipher1>>},
                           responses |-> Responses \cup VersionedResponses],
                          [c \in Callers |-> IF c = "c1" THEN MaxCalls ELSE 0])

GrammarSpec == GrammarInit /\ [][InjectorNext]_vars

\* the references of the runs that look at the keys of the secret cache:
\* reads and writes of one path, with and without a third segment
CacheKeyReferences ==
    {("A" :> v) : v \in {Literal, Cipher1, InlineCipher, Ref, RefBraces,
                         RefWrite}}
    \cup {("BAO_TOKEN" :> TokenEcho)}

CacheKeyConfigs ==
    [keyID : {"mykey"}, ignoreMissing : BOOLEAN, daemonMode : {FALSE},
     batchSize : {1}]

\* one caller that makes its calls one after the other on one injector
CacheKeyInit ==
    /\ ClientReturned
    /\ \E config \in CacheKeyConfigs :
        NewSecretInjector(config,
                          [references |-> CacheKeyReferences,
                           secrets |-> {<<Cipher1>>},
                           responses |-> Responses],
                          [c \in Callers |-> IF c = "c1" THEN MaxCalls ELSE 0])

CacheKeySpec == CacheKeyInit /\ [][InjectorNext]_vars

(***************************************************************************)
(* Properties of the client                                                *)
(***************************************************************************)
\* a login attempt begins in this step
LoginBegins == looppc # "inflight" /\ looppc' = "inflight"

\* a renewal watch exists: a renewer has been created or is running
WatchActive == \E w \in Watchers : wstate[w] \in {"created", "running"}

C2_NoWatchAfterTimeout ==
    (boot = "timedout" /\ ~succeededAtTimeout)
        => (closed /\ ~WatchActive /\ looppc # "renew")

\* C3: the initial-token notification is sent exactly once, by the first
\* login that succeeds, never by a later one, and the send never blocks.
C3_InitialTokenSentOnce ==
    /\ sends <= 1
    /\ initialTokenSent <=> (sends = 1)
    /\ initialTokenArrived <= ChanCap
    /\ looppc # "blocked"
    /\ (everSucceeded /\ looppc \notin {"install", "notify"}) => sends = 1
    /\ ~everSucceeded => sends = 0

\* C3 witness: a renewal watch has ended, a later login has succeeded and
\* its token is being watched, and the notification has been sent once
C3_Witness == arrival = "done" /\ looppc = "renew" /\ sends = 1

\* a token was given directly: the option, the raw client's token or a
\* readable token file
HasDirectToken ==
    cfg.token # NoToken \/ cfg.rawToken # NoToken \/ FileOk(cfg)

\* C4: with a token given directly, bootstrap returns a handle with no login
\* call, the login goroutine is never started and no renewal watcher ever
\* exists.
C4_DirectTokenNoLogin ==
    (HasDirectToken /\ boot # "start") =>
        /\ boot \in {"ready", "returned"}
        /\ token # NoToken
        /\ loginCalled = FALSE
        /\ looppc = "none"
        /\ tokenWatcher = NoWatcher
        /\ \A w \in Watchers : wstate[w] = "free"

\* C4 witness: a handle built on the raw client's own token, later closed
C4_Witness ==
    /\ cfg.token = NoToken /\ cfg.rawToken # NoToken
    /\ boot = "returned" /\ closed

\* C5: once Close has run the flag stays set, and no later step starts a
\* login (Authenticating), installs a token (Authenticated) or enters a
\* renewal watch (Renewing).
C5_ClosedAbsorbing ==
    [][closed => /\ closed'
                 /\ ~LoginBegins
                 /\ token' = token
                 /\ (looppc' = "renew" => looppc = "renew")]_vars

\* C6: Close applied twice in a row gives the state Close gives once: closed
\* is set, the current renewer stopped, the file watch closed; a completed
\* Close has released the mutex, so a second call is not blocked by it.
C6_CloseIdempotent ==
    LET once == Close(ClientState) IN
    /\ Close(once) = once
    /\ once.closed
    /\ tokenWatcher # NoWatcher => once.wstopped[tokenWatcher]
    /\ watch # "none" => once.watch = "closed"
    /\ closeCalls > 0 => closed
    /\ userpc = "idle" => mu # "user"
    /\ boot = "timedout" => mu # "boot"

\* C6 witness: Close has been called twice on a client with a renewer and a
\* file watch
C6_Witness ==
    /\ closeCalls = 2
    /\ tokenWatcher # NoWatcher /\ wstopped[tokenWatcher]
    /\ watch = "closed"

\* C7: in a renewal watch, a "renewed" event keeps the watch (no login, the
\* token unchanged) and a "done" event ends it; the loop then goes through
\* its head check straight to a login, with no backoff.
C7_RenewalEvents ==
    [][/\ (looppc = "renew" /\ renewCh[localWatcher]
              /\ ~renewCh'[localWatcher])
           => (looppc' = "renew" /\ token' = token /\ wstate' = wstate)
       /\ (looppc = "renew" /\ looppc' # "renew")
           => /\ looppc' = "head"
              /\ wstate[localWatcher] \in {"done", "failed"}
              /\ wstate'[localWatcher] = "free"
       /\ (arrival = "done" /\ looppc = "head") => looppc' \in {"head", "check"}
       /\ (arrival = "done" /\ looppc = "check" /\ looppc' # "check")
           => looppc' = (IF closed THEN "exit" ELSE "call")
       /\ (looppc = "call") => looppc' \in {"call", "inflight"}]_vars

\* C7 witness: after a done event of an open client a login is in flight
C7_Witness == arrival = "done" /\ looppc = "inflight" /\ ~closed

\* C8: a failed login neither ends the loop nor reaches a caller: it is
\* followed by the backoff and, unless the client is closed, by another
\* login attempt; with a login collaborator that does not fail for ever a
\* token is eventually installed.
C8_FailedLoginRetries ==
    /\ [][(looppc = "inflight" /\ looppc' # "inflight")
              => looppc' \in {"sleep", "install"}]_vars
    /\ [][looppc = "sleep" => looppc' \in {"sleep", "head"}]_vars
    /\ [](boot \in {"start", "waiting", "ready", "returned", "tclose",
                    "tclosing", "timedout"})
    /\ (looppc = "sleep") ~> (looppc = "inflight" \/ closed)
    /\ <>(closed \/ token # NoToken)

\* C8 witness: a login attempt made after a backoff has installed its token
C8_Witness ==
    /\ arrival = "backoff" /\ token \in LoginTokens
    /\ looppc = "notify"

(***************************************************************************)
(* Properties of the injector                                              *)
(***************************************************************************)
\* the names of the references
Names == {"A", "B", "BAO_TOKEN"}

\* the sink invocations of the caller's call for a name
SunkFor(c, n) == {i \in DOMAIN sunk[c] : sunk[c][i].name = n}

\* C9: in one resolve call the sink is invoked at most once for each name,
\* also for a name whose value is a top-level transit ciphertext found in
\* the transit cache after the pre-scan.
C9_SunkAtMostOncePerName ==
    \A c \in Callers, n \in Names : Cardinality(SunkFor(c, n)) <= 1

\* preprocessTransitSecrets of the outermost call has returned nil and the
\* main loop has not yet delivered anything (the transit cache is as the
\* pre-processing step left it)
PreprocessDone(c) ==
    /\ Depth(c) = 1
    /\ Top(c).pc \in {"main", "ret"}
    /\ ~Top(c).direct
    /\ Top(c).err = NoError
    /\ \A i \in DOMAIN sunk[c] : sunk[c][i].by = "pre"

RECURSIVE Substituted(_, _)
\* value with every span that resolves against the transit cache replaced
\* by its plaintext
Substituted(value, spans) ==
    IF spans = <<>> THEN value
    ELSE Substituted(IF Head(spans)[2] \in DOMAIN transitCache
                     THEN ReplaceAll(value, Head(spans)[1],
                                     transitCache[Head(spans)[2]])
                     ELSE value,
                     Tail(spans))

\* C10: when pre-processing is over, every reference with inline spans of
\* which at least one resolves against the transit cache has been given to
\* the sink by the pre-processing step as the fully substituted string, and
\* has been removed from the references of the main loop.
C10_PreprocessSinksSubstituted ==
    \A c \in Callers :
        PreprocessDone(c) =>
            \A n \in DOMAIN args[c] :
                LET spans == FindInlineBaoDelimiters(args[c][n]) IN
                (\E i \in DOMAIN spans : spans[i][2] \in DOMAIN transitCache)
                    => /\ n \notin DOMAIN Top(c).refs
                       /\ \E j \in DOMAIN sunk[c] :
                            sunk[c][j] =
                                [name |-> n,
                                 value |-> Substituted(args[c][n], spans),
                                 by |-> "pre"]

\* the decrypt requests, batch or single, of the caller's call that carry
\* the ciphertext
DecryptCalls(c, k) ==
    {i \in DOMAIN rpcs[c] :
        /\ rpcs[c][i].op \in {"decryptBatch", "decrypt"}
        /\ k \in Range(rpcs[c][i].arg)}

\* the names of the references that hold the ciphertext, at the top level
\* or in an inline span
NamesWith(references, k) ==
    {n \in DOMAIN references : k \in SecretSet(n :> references[n])}

\* C11: within one resolve call the transit decrypt collaborator, batch and
\* single calls together, is invoked at most once for a ciphertext that is
\* repeated across two or more names, whether the decrypt succeeds or not.
C11_DecryptAtMostOnce ==
    \A c \in Callers, k \in {Cipher1, Cipher2} :
        Cardinality(NamesWith(args[c], k)) >= 2
            => Cardinality(DecryptCalls(c, k)) <= 1

\* a batch decrypt of the caller's resolve call has failed
BatchFailed(c) ==
    /\ args[c] # <<>>
    /\ \E i \in DOMAIN rpcs[c] :
        rpcs[c][i].op = "decryptBatch" /\ rpcs[c][i].res = "err"

\* the error the caller's call has returned or is returning
CallError(c) ==
    IF stack[c] = <<>> THEN result[c]
    ELSE IF Top(c).pc = "ret" THEN Top(c).err
    ELSE NoError

\* C12: a failed batch decrypt of the pre-scan ends the resolve call with
\* an error when ignore-missing is disabled (nothing but the return of
\* FetchTransitSecrets follows it), and is skipped, the call going on
\* without that error, when ignore-missing is enabled.
C12_BatchFailurePolicy ==
    \A c \in Callers :
        BatchFailed(c) =>
            IF icfg.ignoreMissing
            THEN CallError(c).msg # "unable to preprocess transit secrets"
            ELSE \/ CallError(c) # NoError
                 \/ stack[c] # <<>> /\ Top(c).pc = "store"

\* an entry of the caller's call has hit a missing path or a failed decrypt
HitMissing(c, n) ==
    \E i \in DOMAIN rpcs[c] :
        /\ rpcs[c][i].name = n
        /\ \/ rpcs[c][i].op \in {"read", "write"}
              /\ rpcs[c][i].res = "missing"
           \/ rpcs[c][i].op = "decrypt" /\ rpcs[c][i].res = "err"

\* C13: with ignore-missing enabled an entry that hits a missing path or a
\* decrypt failure, whatever its shape (reference, ciphertext, string with
\* inline spans), is skipped: the call returns no such error and the sink
\* is never invoked for that name.
C13_IgnoredEntrySkipped ==
    icfg.ignoreMissing =>
        \A c \in Callers, n \in Names :
            HitMissing(c, n) =>
                /\ SunkFor(c, n) = {}
                /\ CallError(c).msg \notin {"path not found",
                                            "failed to decrypt variable"}

\* the caller's call has returned
Returned(c) == stack[c] = <<>> /\ result[c].msg # "running"

\* the entry's read or write was answered with no secret and no error
PathMissing(c, n) ==
    \E i \in DOMAIN rpcs[c] :
        /\ rpcs[c][i].name = n
        /\ rpcs[c][i].op \in {"read", "write"}
        /\ rpcs[c][i].res = "missing"

\* C14: a top-level reference to a path for which the store returns no
\* secret and no error makes resolve return "path not found: <path>" when
\* ignore-missing is disabled; when it is enabled the entry gives no error
\* and the sink is never invoked for its name.
C14_MissingPathPolicy ==
    \A c \in Callers, n \in Names :
        (/\ n \in DOMAIN args[c]
         /\ Branch(n, args[c][n]) = "secret"
         /\ PathMissing(c, n))
        => /\ SunkFor(c, n) = {}
           /\ IF icfg.ignoreMissing
              THEN /\ CallError(c).msg # "path not found"
                   /\ DOMAIN args[c] = {n} => CallError(c) = NoError
              ELSE CallError(c) =
                       Error("path not found",
                             ParseReference(args[c][n]).path)

\* C14 witness: with ignore-missing enabled a call for one reference whose
\* path is missing has returned nil without a sink invocation
C14_Witness ==
    /\ icfg.ignoreMissing
    /\ Returned("c1") /\ result["c1"] = NoError
    /\ args["c1"] = ("A" :> Ref)
    /\ PathMissing("c1", "A")
    /\ sunk["c1"] = <<>>

\* C15: no step removes a key from the transit cache or the secret cache,
\* or replaces the value stored under a key by a different one.
C15_CachesAppendOnly ==
    [][/\ \A k \in DOMAIN transitCache :
            k \in DOMAIN transitCache' /\ transitCache'[k] = transitCache[k]
       /\ \A k \in DOMAIN secretCache :
            k \in DOMAIN secretCache' /\ secretCache'[k] = secretCache[k]
      ]_vars

\* the writes of the secret cache under a key that came from the store
FreshStores(key) ==
    {i \in DOMAIN stores : stores[i].key = key /\ stores[i].fresh}

\* C16: with one caller, a read or write request is only sent for a key the
\* secret cache does not hold; an attribute map once obtained is in the
\* cache from then on, so that for each key at most one request (one write
\* for a write-mode reference) ever obtains a map.
C16_SecretServedFromCache ==
    /\ [](\A i \in DOMAIN stores :
            /\ stores[i].key \in DOMAIN secretCache
            /\ secretCache[stores[i].key] = stores[i].data
            /\ Cardinality(FreshStores(stores[i].key)) <= 1)
    /\ [][\A c \in Callers :
            (At(c, "sread") /\ Len(rpcs'[c]) > Len(rpcs[c]))
                => SecretCacheKey(ParseReference(Top(c).value))
                       \notin DOMAIN secretCache]_vars

\* C16 witness: the second call for a write-mode reference was served from
\* the cache, with no request
C16_Witness ==
    /\ Returned("c1") /\ result["c1"] = NoError
    /\ args["c1"] = ("A" :> RefWrite)
    /\ rpcs["c1"] = <<>>
    /\ Len(sunk["c1"]) = 1
    /\ Len(stores) = 2 /\ stores[1].fresh /\ ~stores[2].fresh

\* the sections of the code that read a cache, and those that write one
ReadSections == {"filter", "preinjecting", "tread", "sread"}
WriteSections == {"store", "tstore", "sstore"}

InSection(c, sections) == stack[c] # <<>> /\ Top(c).pc \in sections

\* C17: a caller inside a section that reads a cache holds the lock, a
\* caller inside a section that writes one holds it in write mode, the
\* write lock excludes every other holder, and the caches change only in
\* the step of a caller that holds the write lock; so no cache write
\* overlaps another access.
C17_CacheAccessUnderLock ==
    /\ [](\A c \in Callers :
            /\ InSection(c, ReadSections)
                    => (c \in rw.readers \/ rw.writer = c)
            /\ InSection(c, WriteSections) => rw.writer = c
            /\ rw.writer = c => rw.readers = {}
            /\ InSection(c, WriteSections)
                    => \A d \in Callers \ {c} :
                            ~InSection(d, ReadSections \cup WriteSections))
    /\ [][(transitCache' # transitCache \/ secretCache' # secretCache)
            => \E c \in Callers :
                    InSection(c, WriteSections) /\ rw.writer = c]_vars

\* C17 witness: one caller writes the secret cache under the write lock
\* while the other waits for the lock with its own data
C17_Witness ==
    /\ At("c1", "sstore") /\ rw.writer = "c1"
    /\ At("c2", "slock")

\* the last write of the secret cache under the key
LastStore(key) ==
    stores[CHOOSE i \in DOMAIN stores :
            /\ stores[i].key = key
            /\ \A j \in DOMAIN stores : stores[j].key = key => j <= i]

\* C18: callers that miss the secret cache for the same key each ask the
\* store and each write the cache; a write puts the writer's data under the
\* key, so the entry left is that of the caller that took the write lock
\* last.
C18_LastWriteWins ==
    /\ [](\A i \in DOMAIN stores :
            /\ stores[i].key \in DOMAIN secretCache
            /\ secretCache[stores[i].key] = LastStore(stores[i].key).data)
    /\ [][\A c \in Callers :
            (At(c, "sstore") /\ stack'[c] # stack[c])
                => LET key == SecretCacheKey(ParseReference(Top(c).value))
                   IN /\ key \in DOMAIN secretCache'
                      /\ secretCache'[key] = Top(c).got.data]_vars

\* C18 witness: both callers have asked the store for the same key, both
\* have written the cache, and the cache holds the data of the second
\* writer, not that of the first
C18_Witness ==
    /\ Returned("c1") /\ Returned("c2")
    /\ \A c \in Callers :
        \E i \in DOMAIN rpcs[c] :
            /\ rpcs[c][i].op = "read" /\ rpcs[c][i].res = "ok"
            /\ rpcs[c][i].arg = <<<<"p">>, <<"-1">>>>
    /\ Len(stores) = 2
    /\ stores[1].fresh /\ stores[2].fresh
    /\ stores[1].by # stores[2].by
    /\ stores[1].key = stores[2].key
    /\ stores[1].data # stores[2].data
    /\ secretCache[stores[2].key] = stores[2].data

\* the reserved pair: the scheme prefix followed by exactly "login"
IsLoginValue(value) ==
    ~HasInlineBaoDelimiters(value)
    /\ (value = <<"bao:", "login">> \/ value = <<">>", "bao:", "login">>)

\* the requests of the caller's call made for the entry
RequestsFor(c, n) == {i \in DOMAIN rpcs[c] : rpcs[c][i].name = n}

\* C19: the pair BAO_TOKEN, scheme:login sinks the token the client holds,
\* once, with no request and without entering a section that reads or
\* writes a cache for it; under any other name the same value is not a
\* token echo: nothing is sunk for it and the call ends with an error.
C19_TokenEcho ==
    \A c \in Callers, n \in Names :
        (n \in DOMAIN args[c] /\ IsLoginValue(args[c][n])) =>
            IF n = "BAO_TOKEN"
            THEN /\ \A i \in SunkFor(c, n) :
                        sunk[c][i] = [name |-> n, value |-> <<token>>,
                                      by |-> "main"]
                 /\ Cardinality(SunkFor(c, n)) <= 1
                 /\ RequestsFor(c, n) = {}
                 /\ \A d \in DOMAIN stack[c] : stack[c][d].name # n
                 /\ (Returned(c) /\ result[c] = NoError)
                        => Cardinality(SunkFor(c, n)) = 1
            ELSE /\ SunkFor(c, n) = {}
                 /\ Returned(c) => result[c] # NoError

\* C19 witness: the call for the reserved pair has returned with the
\* client's token in the sink
C19_Witness ==
    /\ Returned("c1") /\ result["c1"] = NoError
    /\ args["c1"] = ("BAO_TOKEN" :> TokenEcho)
    /\ sunk["c1"] = <<[name |-> "BAO_TOKEN", value |-> <<token>>,
                       by |-> "main"]>>
    /\ token # NoToken

\* lines 465-467 and 469-471: no recognized prefix, no inline markers
IsLiteral(value) ==
    /\ ~HasInlineBaoDelimiters(value)
    /\ ~HasPrefix(value, <<"bao:">>)
    /\ ~HasPrefix(value, <<">>", "bao:">>)

IsReadReference(n, value) ==
    /\ HasPrefix(value, <<"bao:">>)
    /\ Branch(n, value) = "secret"
    /\ Len(SplitN(TrimPrefix(value, <<"bao:">>), 3)) = 2
    /\ Len(ParseReference(value).key) = 1

\* the attribute map holds the key with a scalar value
HasScalar(data, key) ==
    /\ Len(key) = 1
    /\ key[1] \in DOMAIN data
    /\ data[key[1]].kind = "string"

\* C21: when the attribute map of the path of a reference scheme:path#key is
\* at hand (read without error, or cached) and holds the key with a scalar
\* value v, the step that resolves the key delivers v for the name and
\* raises no error; the call that returns nil, and in which the store did
\* not answer that name with no secret, has delivered v, and nothing else,
\* once for that name.
C21_ReferenceDeliversValue ==
    /\ [][\A c \in Callers :
            (/\ At(c, "sstore")
             /\ stack'[c] # stack[c]
             /\ IsReadReference(Top(c).name, Top(c).value)
             /\ HasScalar(Top(c).got.data, ParseReference(Top(c).value).key))
            => LET v == Top(c).got.data[
                            ParseReference(Top(c).value).key[1]].str
                   after == stack'[c][Depth(c)]
               IN /\ after.err = NoError
                  /\ after.pc # "sstore"
                  /\ IF Depth(c) = 1
                     THEN sunk'[c] = Append(sunk[c],
                            [name |-> Top(c).name, value |-> v,
                             by |-> "main"])
                     ELSE /\ Top(c).name \in DOMAIN after.out
                          /\ after.out[Top(c).name] = v]_vars
    /\ [](\A c \in Callers, n \in Names :
            (/\ Returned(c) /\ result[c] = NoError
             /\ n \in DOMAIN args[c]
             /\ IsReadReference(n, args[c][n])
             /\ ~PathMissing(c, n)
             /\ SecretCacheKey(ParseReference(args[c][n]))
                    \in DOMAIN secretCache
             /\ HasScalar(secretCache[SecretCacheKey(
                                ParseReference(args[c][n]))],
                          ParseReference(args[c][n]).key))
            => /\ Cardinality(SunkFor(c, n)) = 1
               /\ \A i \in SunkFor(c, n) :
                    sunk[c][i].value =
                        secretCache[SecretCacheKey(
                            ParseReference(args[c][n]))][
                                ParseReference(args[c][n]).key[1]].str)

\* C21 witness: the call for scheme:p#k, answered by the store with a map
\* that holds k, has returned nil with the value of k in the sink
C21_Witness ==
    /\ Returned("c1") /\ result["c1"] = NoError
    /\ args["c1"] = ("A" :> Ref)
    /\ \E i \in DOMAIN rpcs["c1"] :
        rpcs["c1"][i].op = "read" /\ rpcs["c1"][i].res = "ok"
    /\ sunk["c1"] = <<[name |-> "A", value |-> <<"s">>, by |-> "main"]>>

\* the body of a reference: what follows the write marker and the scheme
Body(value) == TrimPrefix(Unmarked(value), <<"bao:">>)

\* the positions of the first and of the second "#" of the body, 0 when
\* there is none
FirstHash(value) == IndexHash(Body(value), 1)
SecondHash(value) ==
    IF FirstHash(value) = 0 THEN 0
    ELSE IndexHash(Body(value), FirstHash(value) + 1)

\* what the grammar gives as version or payload: all that follows the second
\* "#", or the default of the mode
VersionOrPayload(value) ==
    IF SecondHash(value) > 0
    THEN SubSeq(Body(value), SecondHash(value) + 1, Len(Body(value)))
    ELSE IF HasPrefix(value, <<">>", "bao:">>) THEN <<"{", "}">>
    ELSE <<"-1">>

\* C22: a reference whose body has no "#" gets no request and no sink
\* invocation and makes the call fail, a call for that reference alone with
\* "secret data key or template not defined"; every request made for a
\* reference with a key is a write exactly when the value carries the write
\* marker, goes to the segment before the first "#", and carries as version
\* or payload all that follows the second "#", further "#" included, or,
\* when there is no second "#", "-1" for a read and "{}" for a write.
C22_ReferenceGrammar ==
    \A c \in Callers, n \in Names :
        (n \in DOMAIN args[c] /\ Branch(n, args[c][n]) = "secret") =>
            IF FirstHash(args[c][n]) = 0
            THEN /\ SunkFor(c, n) = {}
                 /\ RequestsFor(c, n) = {}
                 /\ Returned(c) => result[c] # NoError
                 /\ (Returned(c) /\ DOMAIN args[c] = {n})
                        => result[c] = Error(
                            "secret data key or template not defined", <<>>)
            ELSE \A i \in RequestsFor(c, n) :
                    rpcs[c][i].op \in {"read", "write"} =>
                        /\ rpcs[c][i].op = "write"
                            <=> HasPrefix(args[c][n], <<">>", "bao:">>)
                        /\ rpcs[c][i].arg =
                            <<SubSeq(Body(args[c][n]), 1,
                                     FirstHash(args[c][n]) - 1),
                              VersionOrPayload(args[c][n])>>

\* C22 witness: the read for scheme:p#k#2#x has asked for version 2#x of p
C22_Witness ==
    /\ Returned("c1")
    /\ args["c1"] = ("A" :> RefHashes)
    /\ \E i \in DOMAIN rpcs["c1"] :
        /\ rpcs["c1"][i].op = "read"
        /\ rpcs["c1"][i].arg = <<<<"p">>, <<"2", "#", "x">>>>

\* the step of the caller that resolves the key has delivered the value for
\* the name of the entry: to the sink, or to baoData inside GetDataFromBao
Delivered(c, v) ==
    IF Depth(c) = 1
    THEN sunk'[c] = Append(sunk[c], [name |-> Top(c).name, value |-> v,
                                     by |-> "main"])
    ELSE /\ Top(c).name \in DOMAIN stack'[c][Depth(c)].out
         /\ stack'[c][Depth(c)].out[Top(c).name] = v
         /\ sunk' = sunk

\* the step has delivered nothing and the call is returning the error
FailedWith(c, msg, arg) ==
    /\ sunk' = sunk
    /\ stack'[c][Depth(c)].out = Top(c).out
    /\ stack'[c][Depth(c)].pc = "ret"
    /\ stack'[c][Depth(c)].err = Error(msg, arg)

\* C23: in the step that follows the arrival of the attribute map, a key
\* that is not a template is looked up in the map: absent, the call fails
\* with "key '<key>' not found under path: <path>" and nothing is delivered;
\* present with a value that is no scalar, the call fails; otherwise the
\* string is delivered. A key that is a template is rendered against the
\* whole map, and what the rendering gives is delivered. A call for one
\* reference that failed on its key has never invoked the sink.
C23_KeyResolution ==
    /\ [][\A c \in Callers :
            (At(c, "sstore") /\ stack'[c] # stack[c]) =>
                LET ref == ParseReference(Top(c).value)
                    data == Top(c).got.data
                IN IF IsGoTemplate(ref.key)
                   THEN IF Template(ref.key, data).err
                        THEN FailedWith(c,
                          "failed to interpolate template key with bao data",
                          ref.key)
                        ELSE /\ Delivered(c, Template(ref.key, data).val)
                             /\ stack'[c][Depth(c)].err = NoError
                   ELSE IF \A a \in DOMAIN data : ref.key # <<a>>
                   THEN FailedWith(c, "key not found under path",
                                   <<ref.key, ref.path>>)
                   ELSE IF data[ref.key[1]].kind # "string"
                   THEN FailedWith(c, "value can't be cast to a string",
                                   <<>>)
                   ELSE /\ Delivered(c, data[ref.key[1]].str)
                        /\ stack'[c][Depth(c)].err = NoError]_vars
    /\ [](\A c \in Callers, n \in Names :
            (/\ DOMAIN args[c] = {n}
             /\ CallError(c).msg \in {"key not found under path",
                                      "value can't be cast to a string"})
            => SunkFor(c, n) = {})

\* C23 witness: the store has answered the read for scheme:p#k with a map
\* that has no k, and the call has returned the error that names k and p,
\* with nothing in the sink
C23_Witness ==
    /\ Returned("c1")
    /\ args["c1"] = ("A" :> Ref)
    /\ result["c1"] = Error("key not found under path",
                            <<<<"k">>, <<"p">>>>)
    /\ \E i \in DOMAIN rpcs["c1"] :
        rpcs["c1"][i].op = "read" /\ rpcs["c1"][i].res = "ok"
    /\ sunk["c1"] = <<>>

\* the requests of the caller's call that register a secret with the renewer
Renewals(c) == {i \in DOMAIN rpcs[c] : rpcs[c][i].op = "renew"}

\* the read or write request of the call was answered with a leased secret
Leased(c, i) ==
    rpcs[c][i].op \in {"read", "write"} /\ rpcs[c][i].res = "leased"

\* C24: in daemon mode the request that follows a read or write answered
\* with a secret of positive lease duration is the registration of that path
\* with the renewer, made in the same step, so before the map is cached or
\* delivered; a registration that fails ends the call with an error, with
\* nothing in the secret cache for the reference and no sink invocation for
\* its name. The renewer is called for nothing else: never when daemon mode
\* is off, never for a secret without a lease.
C24_LeaseRenewal ==
    \A c \in Callers :
        /\ \A i \in DOMAIN rpcs[c] :
            (icfg.daemonMode /\ Leased(c, i)) =>
                /\ i + 1 \in Renewals(c)
                /\ rpcs[c][i + 1].name = rpcs[c][i].name
                /\ rpcs[c][i + 1].arg = <<rpcs[c][i].arg[1]>>
        /\ \A i \in Renewals(c) :
            /\ icfg.daemonMode
            /\ i > 1 /\ Leased(c, i - 1)
            /\ rpcs[c][i].res = "err" =>
                /\ i = Len(rpcs[c])
                /\ CallError(c) =
                        Error("secret renewal can't be established", <<>>)
                /\ SunkFor(c, rpcs[c][i].name) = {}
                /\ (rpcs[c][i - 1].arg[1] \o <<"#">>
                        \o rpcs[c][i - 1].arg[2]) \notin DOMAIN secretCache

\* C24 witness: in daemon mode the read for scheme:p#k was answered with a
\* leased secret, the registration failed, and the call has returned the
\* error with nothing cached and nothing in the sink
C24_Witness ==
    /\ icfg.daemonMode
    /\ Returned("c1")
    /\ args["c1"] = ("A" :> Ref)
    /\ Len(rpcs["c1"]) = 2
    /\ Leased("c1", 1)
    /\ rpcs["c1"][2].op = "renew" /\ rpcs["c1"][2].res = "err"
    /\ result["c1"] = Error("secret renewal can't be established", <<>>)
    /\ sunk["c1"] = <<>>
    /\ <<"p", "#", "-1">> \notin DOMAIN secretCache

\* the decrypt requests, batch or single, of the caller's call
Decrypts(c) ==
    {i \in DOMAIN rpcs[c] : rpcs[c][i].op \in {"decryptBatch", "decrypt"}}

\* C25: with an empty transit key id no decrypt request, batch or single,
\* is ever sent; FetchTransitSecrets returns the configuration error; and a
\* resolve call whose pre-scan found a ciphertext, and so called it, returns
\* an error whether ignore-missing is enabled or not.
C25_EmptyKeyFatal ==
    icfg.keyID = "" =>
        \A c \in Callers :
            /\ Decrypts(c) = {}
            /\ (stack[c] # <<>> /\ Top(c).direct /\ Top(c).pc = "ret")
                    => Top(c).err = Error("transit key ID is empty", <<>>)
            /\ (Returned(c) /\ SecretSet(args[c]) # {})
                    => result[c] # NoError

RECURSIVE Flatten(_)
\* the concatenation of the chunks, in their order
Flatten(chunks) ==
    IF chunks = <<>> THEN <<>> ELSE Head(chunks) \o Flatten(Tail(chunks))

\* the chunks are what fixed-size pagination of their concatenation gives
WellPaginated(chunks, batchSize) ==
    \A i \in DOMAIN chunks :
        /\ Len(chunks[i]) >= 1
        /\ Len(chunks[i]) <= batchSize
        /\ i < Len(chunks) => Len(chunks[i]) = batchSize

\* the ciphertexts of the batch decrypt requests of the caller's call, one
\* sequence for each request, in the order of the requests
BatchRequests(c) ==
    LET batches == SelectSeq(rpcs[c], LAMBDA r : r.op = "decryptBatch")
    IN [i \in DOMAIN batches |-> batches[i].arg]

\* the pre-scan of the caller's outermost call is over, the main loop has
\* not begun
PreScanDone(c) ==
    /\ Depth(c) = 1
    /\ ~Top(c).direct
    /\ Top(c).pc \in {"preinject", "preinjecting"}

\* C26: the pre-scan cuts the ciphertexts of the references that the transit
\* cache does not hold, in some order and each once, into chunks that are
\* not empty, have at most the batch size, and all but the last exactly
\* the batch size; with a transit key id configured each step of the fetch
\* loop sends one batch decrypt request for the chunk at hand, so that when
\* the pre-scan is over the requests sent are the chunks, one request for
\* each, in their order, and none when no ciphertext was left.
C26_Pagination ==
    /\ [][\A c \in Callers :
            (At(c, "filter") /\ stack'[c] # stack[c]) =>
                LET chunks == stack'[c][Depth(c)].chunks
                IN /\ Flatten(chunks) \in Orderings(
                            {k \in SecretSet(Top(c).refs) :
                                k \notin DOMAIN transitCache})
                   /\ WellPaginated(chunks, icfg.batchSize)]_vars
    /\ [][\A c \in Callers :
            (At(c, "fetch") /\ stack'[c] # stack[c] /\ icfg.keyID # "") =>
                /\ Len(rpcs'[c]) = Len(rpcs[c]) + 1
                /\ rpcs'[c][Len(rpcs'[c])].op = "decryptBatch"
                /\ rpcs'[c][Len(rpcs'[c])].arg = Head(Top(c).chunks)]_vars
    /\ [](\A c \in Callers :
            (PreScanDone(c) /\ icfg.keyID # "") =>
                /\ WellPaginated(BatchRequests(c), icfg.batchSize)
                /\ Flatten(BatchRequests(c))
                        \in Orderings(Range(Flatten(BatchRequests(c))))
                /\ Range(Flatten(BatchRequests(c))) \subseteq
                        SecretSet(args[c])
                /\ \A k \in SecretSet(args[c]) :
                        \/ k \in Range(Flatten(BatchRequests(c)))
                        \/ k \in DOMAIN transitCache
                /\ Len(BatchRequests(c)) * icfg.batchSize
                        < Len(Flatten(BatchRequests(c))) + icfg.batchSize
                /\ Len(BatchRequests(c)) * icfg.batchSize
                        >= Len(Flatten(BatchRequests(c))))

\* C26 witness: three ciphertexts and a batch size of two; the pre-scan has
\* sent two requests, the first with two ciphertexts and the second with
\* the one that was left
C26_Witness ==
    /\ icfg.batchSize = 2
    /\ PreScanDone("c1")
    /\ args["c1"] = ("A" :> InlineTwo) @@ ("B" :> Cipher3)
    /\ Len(BatchRequests("c1")) = 2
    /\ Len(BatchRequests("c1")[1]) = 2
    /\ Len(BatchRequests("c1")[2]) = 1

\* the attribute maps that the store's answers nest under "data"
NestedMaps == {r.data : r \in {a \in inputs.responses : a.v2}}

\* the attribute maps that the store's answers carry at the top level
TopLevelMaps == {r.data : r \in {a \in inputs.responses : ~a.v2 /\ ~a.isNil}}

\* the key of the secret cache that the request of the call is made for
KeyOf(c, i) == rpcs[c][i].arg[1] \o <<"#">> \o rpcs[c][i].arg[2]

\* the attribute map the caller has obtained by the request: on its way to
\* the cache, or in it
Obtained(c, i, maps) ==
    \/ /\ stack[c] # <<>>
       /\ Top(c).pc \in {"slock", "sstore"}
       /\ Top(c).got.fresh
       /\ Top(c).got.data \in maps
    \/ /\ KeyOf(c, i) \in DOMAIN secretCache
       /\ secretCache[KeyOf(c, i)] \in maps

\* the read and write requests of the caller's call
StoreRequests(c) ==
    {i \in DOMAIN rpcs[c] : rpcs[c][i].op \in {"read", "write"}}

\* C27: a read or write answered with a secret whose Data has a "data"
\* entry and a metadata map, also one that marks the version destroyed or
\* deleted, gives the caller the attributes nested under "data", possibly
\* none, and no error from the store path; an answer without a "data" entry
\* gives the attributes of the top level; and the call takes a path for
\* missing only when the store has answered with no secret at all.
C27_VersionedResponses ==
    \A c \in Callers :
        /\ \A i \in StoreRequests(c) :
            /\ rpcs[c][i].res \in {"versioned", "destroyed", "deleted"}
                => /\ Obtained(c, i, NestedMaps)
                   /\ CallError(c).msg \notin
                        {"path not found",
                         "metadata key not found or is nil in secret",
                         "metadata has an unexpected type"}
            /\ rpcs[c][i].res = "ok" => Obtained(c, i, TopLevelMaps)
        /\ CallError(c).msg = "path not found"
            => /\ rpcs[c] # <<>>
               /\ rpcs[c][Len(rpcs[c])].res = "missing"

\* C27 witness: the read for scheme:p#k#2 was answered with a deleted
\* version that has no attributes; the path counts as found, the empty map
\* is in the cache, and the call has failed on the key, not on the path
C27_Witness ==
    /\ Returned("c1")
    /\ args["c1"] = ("A" :> RefVersion)
    /\ Len(rpcs["c1"]) = 1
    /\ rpcs["c1"][1].op = "read" /\ rpcs["c1"][1].res = "deleted"
    /\ secretCache[<<"p", "#", "2">>] = <<>>
    /\ result["c1"] = Error("key not found under path",
                            <<<<"k">>, <<"p">>>>)

(***************************************************************************)
(* The token sources of the constructor                                    *)
(***************************************************************************)
\* the token file the configuration puts in force: the tokenPath option,
\* else VAULT_TOKEN_PATH, else the file in the home directory
FileInForce(c, file) ==
    \/ c.tokenPath = file
    \/ c.tokenPath = "" /\ c.envTokenPath = file
    \/ c.tokenPath = "" /\ c.envTokenPath = "" /\ file = HomeTokenFile

\* the constructor has run in this step
Constructed == boot = "start" /\ boot' # "start"

C29_TokenUnderMutex ==
    [][/\ boot = "returned" => tokenWatcher' = tokenWatcher
       /\ (boot # "start" /\ token' # token) =>
              looppc = "install" /\ mu = "loop"
       /\ \A c \in Callers : MainTokenEcho(c) => mu = c]_vars

(***************************************************************************)
(* The login goroutine after Close                                         *)
(***************************************************************************)
\* Renewer.Stop makes the renewer write to DoneCh
StoppedWatcherEnds(w) == wstopped[w] /\ WatcherEnds(w)

\* the goroutines keep running, whoever holds client.mu runs on to its
\* Unlock, sync.Mutex hands the lock to a waiter that keeps asking, a login
\* call returns, and a stopped renewer delivers its done event
CloseFairSpec ==
    /\ Spec
    /\ WF_vars(NewClientFromRawClientWithContext)
    /\ WF_vars(LoopNext)
    /\ WF_vars(TimeoutClose)
    /\ WF_vars(UserClose)
    /\ WF_vars(FileWatchCheck)
    /\ SF_vars(LoopLock)
    /\ SF_vars(SetWatcherLock)
    /\ \A w \in Watchers : WF_vars(StoppedWatcherEnds(w))

\* C30: once Close has set the closed flag, the login goroutine, if one was
\* started, eventually leaves its loop, whatever it was doing when Close ran.
C30_LoopEndsAfterClose ==
    (closed /\ looppc # "none") ~> (looppc = "exit")

(***************************************************************************)
(* The renewal watches of the login goroutine                              *)
(***************************************************************************)
\* the renewers that were created and whose end the goroutine has not yet
\* taken from DoneCh
ActiveWatches == {w \in Watchers : wstate[w] # "free"}

\* C31: at most one renewal watch is active at any time: a renewer exists
\* (created, running, or ended with its done event not yet taken) only when
\* every earlier one has delivered its done event to the goroutine, and no
\* login is called or in flight while one exists.
C31_OneActiveWatch ==
    /\ Cardinality(ActiveWatches) <= 1
    /\ ActiveWatches # {} => ActiveWatches = {localWatcher}
    /\ looppc \in {"call", "inflight"} => ActiveWatches = {}

\* C31 witness: after the done event of the first renewer a second login has
\* succeeded and the second renewer runs alone
C31_Witness ==
    /\ arrival = "done"
    /\ localWatcher = 2
    /\ wstate[2] = "running"
    /\ wstate[1] = "free"
    /\ looppc = "renew"

(***************************************************************************)
(* The keys of the secret cache                                            *)
(***************************************************************************)
\* C32: a read-mode reference and a write-mode reference never share an
\* entry of the secret cache: all the references that come to store under
\* one key, after a request or after a hit in the cache, are of one mode, so
\* no write is skipped for an entry a read made, and no read is answered
\* from an entry a write made.
C32_ModesShareNoEntry ==
    \A i, j \in DOMAIN stores :
        stores[i].key = stores[j].key => stores[i].update = stores[j].update

(***************************************************************************)
(* References that do not resolve                                          *)
(***************************************************************************)
\* the read or write request of the call gave no attribute map: the store
\* answered with an error or with no secret, or the registration of the
\* leased secret with the renewer failed
Unresolved(c, i) ==
    \/ rpcs[c][i].res \in {"err", "missing"}
    \/ /\ i + 1 \in DOMAIN rpcs[c]
       /\ rpcs[c][i + 1].op = "renew"
       /\ rpcs[c][i + 1].res = "err"

\* a later request of the call for the same key that gave a map
ResolvedLater(c, i) ==
    \E j \in StoreRequests(c) :
        j > i /\ KeyOf(c, j) = KeyOf(c, i) /\ ~Unresolved(c, j)

\* the references of the call that the main loop reads or writes
SecretNames(c) ==
    {n \in DOMAIN args[c] :
        /\ Branch(n, args[c][n]) = "secret"
        /\ ParseReference(args[c][n]).defined
        /\ ParseReference(args[c][n]).update =>
               ValidJSON(ParseReference(args[c][n]).versionOrData)}

\* C33: with one caller, a request that gives no attribute map (an error of
\* the store, no secret under either ignore-missing setting, a failed
\* registration with the renewer) puts nothing into the secret cache: its
\* key is in the cache only if a later request for it gave a map. So a
\* reference of a call that went through all its entries either made a
\* request of its own or has its key in the cache: a reference resolved
\* after one that did not resolve asks the store again.
C33_UnresolvedLeavesCache ==
    \A c \in Callers :
        /\ \A i \in StoreRequests(c) :
              Unresolved(c, i) =>
                  \/ KeyOf(c, i) \notin DOMAIN secretCache
                  \/ ResolvedLater(c, i)
        /\ (Returned(c) /\ result[c] = NoError) =>
              \A n \in SecretNames(c) :
                  \/ RequestsFor(c, n) \cap StoreRequests(c) # {}
                  \/ SecretCacheKey(ParseReference(args[c][n]))
                         \in DOMAIN secretCache

\* C33 witness: with ignore-missing enabled two references to one path were
\* both answered with no secret, each by a request of its own, and the
\* cache is empty
C33_Witness ==
    /\ Returned("c1") /\ result["c1"] = NoError
    /\ args["c1"] = ("A" :> Ref) @@ ("B" :> Ref)
    /\ Len(rpcs["c1"]) = 2
    /\ \A i \in {1, 2} : rpcs["c1"][i].op = "read" /\ Unresolved("c1", i)
    /\ secretCache = <<>>

(***************************************************************************)
(* A call that returns an error                                            *)
(***************************************************************************)
\* the innermost running call of the stack has met the error it returns
Failing(s) == s # <<>> /\ s[Len(s)].err # NoError

\* s is the beginning of t
Extends(t, s) == Len(s) <= Len(t) /\ SubSeq(t, 1, Len(s)) = s

\* C34: from the step in which an entry of a call fails, the call invokes
\* the sink no more and sends no request: the failing step itself gives
\* nothing to the sink, and every later step of the call only hands the
\* same error to the caller, up to the return of the outermost call. What
\* the sink got for the entries before stays: within a call the sink log
\* and the requests only grow, and the return leaves them as they are, so
\* the error comes with a possibly partial delivery.
C34_ErrorEndsBatch ==
    [][\A c \in Callers :
        /\ (stack[c] # <<>> /\ stack'[c] # <<>>) =>
              Extends(sunk'[c], sunk[c]) /\ Extends(rpcs'[c], rpcs[c])
        /\ (stack[c] # <<>> /\ stack'[c] = <<>>) =>
              /\ sunk'[c] = sunk[c]
              /\ rpcs'[c] = rpcs[c]
              /\ result'[c] = Top(c).err
        /\ (~Failing(stack[c]) /\ Failing(stack'[c])) => sunk'[c] = sunk[c]
        /\ Failing(stack[c]) =>
              /\ sunk'[c] = sunk[c]
              /\ rpcs'[c] = rpcs[c]
              /\ \/ stack'[c] = stack[c]
                 \/ /\ Len(stack'[c]) = Len(stack[c]) - 1
                    /\ stack'[c] # <<>> =>
                          /\ stack'[c][Len(stack'[c])].pc = "ret"
                          /\ stack'[c][Len(stack'[c])].err = Top(c).err
      ]_vars

\* C34 witness: a call for a literal and a reference without a key has
\* returned the error of the reference after the literal went to the sink
C34_Witness ==
    /\ Returned("c1")
    /\ args["c1"] = ("A" :> Literal) @@ ("B" :> RefNoKey)
    /\ result["c1"] = Error("secret data key or template not defined", <<>>)
    /\ Len(sunk["c1"]) = 1
    /\ sunk["c1"][1].name = "A"

====
